---- MODULE Spec2Model ----
(***************************************************************************)
(* Voice session pipeline of discord_rag_bot (internal/bot/voice.go):      *)
(* the VoiceManager registry (JoinVoiceChannel / LeaveVoiceChannel), the   *)
(* per-session ingestion task (listenForVoice / processVoicePacket) and    *)
(* the segmenter (handleVoiceRecording / processRecordedAudio).            *)
(*                                                                         *)
(* Spec      : concurrent callers of the registry, step by step.           *)
(* SpecLeave : a joined session with its ingestion tasks, and its leave.   *)
(* SpecSeg   : a joined session fed a tick-aligned buffer trace.           *)
(***************************************************************************)
EXTENDS Integers, Sequences, FiniteSets, TLC

\* ---------------------------------------------------------------- bounds
NumProcs == 2
MaxConns == 2
MaxBuffered == 1
MaxSpecTicks == 1
MaxTick == 310
MaxPlays == 2
MaxFrames == 2
MaxBursts == 2
BurstFrames == 5
MaxOther == 1
MaxStamp == 2

\* ------------------------------------------------------ program constants
ReadyWaitTicks == 100
FrameBytes == 3840
MinAudioBytes == 16000
SilenceTicks == 20
maxRecordingTime == 300
SendWaitFrames == 5
TimerUnits == 2
InactivityUnits == 20
PaceFrames == 1
ConvertUnits == 2

Guilds == {"g1", "g2"}
\* The guild in which the callers of the single-guild specifications act.
OneGuild == {"g1"}
Channels == {"c1", "c2"}
Nil == 0
Sessions == 1..MaxConns
Procs == {"proc"} \X (1..NumProcs)
Listeners == {"listen"} \X Sessions
Threads == Procs \cup Listeners
NoThread == <<"none", 0>>
ListenThread(s) == <<"listen", s>>
PacketKinds == {"voice", "nil", "ssrc0"}
FrameKinds == {"voice", "other"}
PlaySlots == 1..MaxPlays

VARIABLES
  connections,  \* vm.connections: guild -> registered session (Nil: no entry)
  vmMu,         \* holder of vm.mu (write lock), NoThread when free
  pc,           \* position of every thread (callers and listenForVoice tasks)
  call,         \* arguments and locals of the call a thread is executing
  vcs,          \* the VoiceConnection objects ever constructed
  conns,        \* state of the discordgo voice connections
  pkt,          \* packet taken from OpusRecv by each listenForVoice task
  rpc,          \* position of each session's handleVoiceRecording task
  rec,          \* locals of handleVoiceRecording
  utterances,   \* utterances handed to transcription, per session
  hist,         \* the last returned call and the serial view of the registry
  left,         \* sessions whose LeaveVoiceChannel has returned
  clock,        \* SpecSeg: 100 ms periods elapsed since the trace started
  fed,          \* SpecSeg: the packet of the current period was delivered
  feed,         \* SpecSeg: the buffer trace (grow ticks, stall ticks)
  vmReaders,    \* number of holders of vm.mu.RLock()
  hpc,          \* position of the text handler (handleAIQuery)
  hvc,          \* the session the handler read from vm.connections
  play,         \* the SendAudio / playPCMFile executions
  sent,         \* frames handed to Connection.OpusSend, in order
  watch         \* SpecWatch: listenForVoice's 30 s timer, the silence and
                \* whether the connection has failed; SpecReject: whether
                \* the last processVoicePacket returned early

regvars == <<connections, vmMu, pc, call, vcs, conns, hist, left>>
taskvars == <<pkt, rpc, rec, utterances>>
harness == <<clock, fed, feed>>
sendvars == <<vmReaders, hpc, hvc, play, sent, watch>>
vars == <<connections, vmMu, pc, call, vcs, conns, pkt, rpc, rec,
          utterances, hist, left, clock, fed, feed,
          vmReaders, hpc, hvc, play, sent, watch>>

NoSession == [created |-> FALSE, GuildID |-> "-", ChannelID |-> "-",
              AudioBuffer |-> 0, LastActivity |-> 0, IsRecording |-> FALSE,
              cancelled |-> FALSE, written |-> 0, frames |-> <<>>]
NoPkt == [kind |-> "nil", seq |-> 0]
NoCall == [op |-> "none", guild |-> "-", channel |-> "-", before |-> Nil,
           old |-> Nil, conn |-> Nil, elapsed |-> 0, ok |-> FALSE,
           err |-> "none", after |-> Nil, second |-> FALSE,
           firstAfter |-> Nil]
NoRec == [lastBufferSize |-> 0, silenceCount |-> 0, ticks |-> 0]
NoFeed == [grow |-> 0, stall |-> 0]
NoHist == [prevLeft |-> "-", prevAfter |-> Nil,
           serial |-> [g \in Guilds |-> "-"], agree |-> TRUE]
NoPlay == [pc |-> "p_none", vc |-> Nil, origin |-> "-", wasLeft |-> FALSE,
           frames |-> 0, frame |-> 0, waited |-> 0, since |-> 0,
           handed |-> 0, timedOut |-> 0, err |-> "none", cut |-> FALSE]
NoWatch == [timer |-> 0, silent |-> 0, failed |-> FALSE, early |-> FALSE]

\* Nobody reads the registry, nothing is being played, no time has passed.
SendInit ==
  /\ vmReaders = 0
  /\ hpc = "h_idle"
  /\ hvc = Nil
  /\ play = [i \in PlaySlots |-> NoPlay]
  /\ sent = <<>>
  /\ watch = NoWatch

\* NewVoiceManager: an empty registry, nothing running.
Init ==
  /\ connections = [g \in Guilds |-> Nil]
  /\ vmMu = NoThread
  /\ pc = [t \in Threads |-> IF t \in Procs THEN "idle" ELSE "l_none"]
  /\ call = [t \in Threads |-> NoCall]
  /\ vcs = [s \in Sessions |-> NoSession]
  /\ conns = [s \in Sessions |-> "unused"]
  /\ pkt = [s \in Sessions |-> NoPkt]
  /\ rpc = [s \in Sessions |-> "r_none"]
  /\ rec = [s \in Sessions |-> NoRec]
  /\ utterances = [s \in Sessions |-> <<>>]
  /\ hist = NoHist
  /\ left = {}
  /\ clock = 0
  /\ fed = FALSE
  /\ feed = NoFeed
  /\ SendInit

\* ------------------------------------------------------------ the callers
\* A handler invokes JoinVoiceChannel(guildID, channelID).
CallJoin(t, g, c) ==
  /\ t \in Procs
  /\ pc[t] = "idle"
  /\ pc' = [pc EXCEPT ![t] = "j_lock"]
  /\ call' = [call EXCEPT ![t] = [NoCall EXCEPT !.op = "join", !.guild = g,
                                                 !.channel = c]]
  /\ UNCHANGED <<connections, vmMu, vcs, conns, hist, left>>
  /\ UNCHANGED taskvars
  /\ UNCHANGED harness
  /\ UNCHANGED sendvars

\* A handler invokes LeaveVoiceChannel(guildID).
CallLeave(t, g) ==
  /\ t \in Procs
  /\ pc[t] = "idle"
  /\ pc' = [pc EXCEPT ![t] = "lv_lock"]
  /\ call' = [call EXCEPT ![t] = [NoCall EXCEPT !.op = "leave", !.guild = g]]
  /\ UNCHANGED <<connections, vmMu, vcs, conns, hist, left>>
  /\ UNCHANGED taskvars
  /\ UNCHANGED harness
  /\ UNCHANGED sendvars

\* The call of thread t as its caller sees it once it returned: the result,
\* the registry entry it left, and whether it directly follows a successful
\* leave of the same guild.
Result(t, ok, err) ==
  [call[t] EXCEPT !.ok = ok, !.err = err, !.elapsed = 0,
                  !.after = connections[call[t].guild],
                  !.second = (hist.prevLeft = call[t].guild),
                  !.firstAfter = IF hist.prevLeft = call[t].guild
                                   THEN hist.prevAfter ELSE Nil]

\* The history after the call of thread t returned: whether it was a
\* successful leave, and the registry and return values obtained by running
\* the returned calls one after another in the order of their return.
Returned(t, ok, err) ==
  LET g == call[t].guild
      expected == IF call[t].op = "leave" THEN hist.serial[g] # "-" ELSE ok
  IN [prevLeft |-> IF call[t].op = "leave" /\ ok THEN g ELSE "-",
      prevAfter |-> IF call[t].op = "leave" /\ ok THEN connections[g] ELSE Nil,
      serial |-> [hist.serial EXCEPT ![g] =
                    IF call[t].op = "join" /\ ok THEN call[t].channel
                                                 ELSE "-"],
      agree |-> hist.agree /\ (ok = expected)]

\* Where a thread continues after its call returned.
AfterReturn(t) == IF t \in Procs THEN "returned" ELSE "l_done"

\* The handler takes the result and is ready for its next command.
CallerResume(t) ==
  /\ pc[t] = "returned"
  /\ pc' = [pc EXCEPT ![t] = "idle"]
  /\ call' = [call EXCEPT ![t] = NoCall]
  /\ UNCHANGED <<connections, vmMu, vcs, conns, hist, left>>
  /\ UNCHANGED taskvars
  /\ UNCHANGED harness
  /\ UNCHANGED sendvars

\* ------------------------------------------------------ JoinVoiceChannel
\* vm.mu.Lock() without mutual exclusion.
JoinLockNoMutex(t) ==
  /\ pc[t] = "j_lock"
  /\ vmMu' = t
  /\ pc' = [pc EXCEPT ![t] = "j_check"]
  /\ call' = [call EXCEPT ![t].before = connections[call[t].guild]]
  /\ UNCHANGED <<connections, vcs, conns, hist, left>>
  /\ UNCHANGED taskvars
  /\ UNCHANGED harness
  /\ UNCHANGED sendvars

\* vm.mu.Lock(); defer vm.mu.Unlock()
JoinLock(t) ==
  /\ pc[t] = "j_lock"
  /\ vmMu = NoThread
  /\ vmReaders = 0
  /\ vmMu' = t
  /\ pc' = [pc EXCEPT ![t] = "j_check"]
  /\ call' = [call EXCEPT ![t].before = connections[call[t].guild]]
  /\ UNCHANGED <<connections, vcs, conns, hist, left>>
  /\ UNCHANGED taskvars
  /\ UNCHANGED harness
  /\ UNCHANGED sendvars

\* if existingConn, exists := vm.connections[guildID]; exists { ... }
JoinCheckExisting(t) ==
  /\ pc[t] = "j_check"
  /\ LET existing == connections[call[t].guild] IN
       /\ pc' = [pc EXCEPT ![t] = IF existing # Nil THEN "j_cancel"
                                                    ELSE "j_open"]
       /\ call' = [call EXCEPT ![t].old = existing]
  /\ UNCHANGED <<connections, vmMu, vcs, conns, hist, left>>
  /\ UNCHANGED taskvars
  /\ UNCHANGED harness
  /\ UNCHANGED sendvars

\* existingConn.cancel()
JoinCancelOld(t) ==
  /\ pc[t] = "j_cancel"
  /\ vcs' = [vcs EXCEPT ![call[t].old].cancelled = TRUE]
  /\ pc' = [pc EXCEPT ![t] = "j_disc"]
  /\ UNCHANGED <<connections, vmMu, call, conns, hist, left>>
  /\ UNCHANGED taskvars
  /\ UNCHANGED harness
  /\ UNCHANGED sendvars

\* existingConn.Connection.Disconnect()
JoinDisconnectOld(t) ==
  /\ pc[t] = "j_disc"
  /\ conns' = [conns EXCEPT ![call[t].old] = "closed"]
  /\ pc' = [pc EXCEPT ![t] = "j_delete"]
  /\ UNCHANGED <<connections, vmMu, call, vcs, hist, left>>
  /\ UNCHANGED taskvars
  /\ UNCHANGED harness
  /\ UNCHANGED sendvars

\* The teardown that forgets delete(vm.connections, guildID).
JoinDeleteOldKeep(t) ==
  /\ pc[t] = "j_delete"
  /\ pc' = [pc EXCEPT ![t] = "j_open"]
  /\ UNCHANGED <<connections, vmMu, call, vcs, conns, hist, left>>
  /\ UNCHANGED taskvars
  /\ UNCHANGED harness
  /\ UNCHANGED sendvars

\* delete(vm.connections, guildID); time.Sleep(1 * time.Second)
JoinDeleteOld(t) ==
  /\ pc[t] = "j_delete"
  /\ connections' = [connections EXCEPT ![call[t].guild] = Nil]
  /\ pc' = [pc EXCEPT ![t] = "j_open"]
  /\ UNCHANGED <<vmMu, call, vcs, conns, hist, left>>
  /\ UNCHANGED taskvars
  /\ UNCHANGED harness
  /\ UNCHANGED sendvars

\* The connection object ChannelVoiceJoin hands out next.
FreshConn == CHOOSE c \in Sessions :
               /\ conns[c] = "unused"
               /\ \A d \in Sessions : conns[d] = "unused" => c <= d

\* s.ChannelVoiceJoin fails: return the error (the deferred Unlock runs).
JoinOpenFail(t) ==
  /\ pc[t] = "j_open"
  /\ hist' = Returned(t, FALSE, "open")
  /\ vmMu' = NoThread
  /\ pc' = [pc EXCEPT ![t] = AfterReturn(t)]
  /\ call' = [call EXCEPT ![t] = IF t \in Procs THEN Result(t, FALSE, "open")
                                                     ELSE NoCall]
  /\ UNCHANGED <<connections, vcs, conns, left>>
  /\ UNCHANGED taskvars
  /\ UNCHANGED harness
  /\ UNCHANGED sendvars

\* voiceConn, err := s.ChannelVoiceJoin(...) succeeds; the ready wait starts.
JoinOpen(t) ==
  /\ pc[t] = "j_open"
  /\ \E c \in Sessions : conns[c] = "unused"
  /\ conns' = [conns EXCEPT ![FreshConn] = "open"]
  /\ call' = [call EXCEPT ![t].conn = FreshConn, ![t].elapsed = 0]
  /\ pc' = [pc EXCEPT ![t] = "j_wait"]
  /\ UNCHANGED <<connections, vmMu, vcs, hist, left>>
  /\ UNCHANGED taskvars
  /\ UNCHANGED harness
  /\ UNCHANGED sendvars

\* The gateway reports the opened connection ready (voiceConn.Ready = true).
ConnReady(c) ==
  /\ conns[c] = "open"
  /\ conns' = [conns EXCEPT ![c] = "ready"]
  /\ UNCHANGED <<connections, vmMu, pc, call, vcs, hist, left>>
  /\ UNCHANGED taskvars
  /\ UNCHANGED harness
  /\ UNCHANGED sendvars

\* case <-ticker.C: if voiceConn.Ready { goto ready }
JoinWaitTick(t) ==
  /\ pc[t] = "j_wait"
  /\ call[t].elapsed < ReadyWaitTicks
  /\ call' = [call EXCEPT ![t].elapsed = @ + 1]
  /\ pc' = [pc EXCEPT ![t] = IF conns[call[t].conn] = "ready" THEN "j_ready"
                                                                ELSE "j_wait"]
  /\ UNCHANGED <<connections, vmMu, vcs, conns, hist, left>>
  /\ UNCHANGED taskvars
  /\ UNCHANGED harness
  /\ UNCHANGED sendvars

\* The timeout branch that returns without disconnecting.
JoinTimeoutLeak(t) ==
  /\ pc[t] = "j_wait"
  /\ call[t].elapsed >= ReadyWaitTicks - 1
  /\ hist' = Returned(t, FALSE, "timeout")
  /\ vmMu' = NoThread
  /\ pc' = [pc EXCEPT ![t] = AfterReturn(t)]
  /\ call' = [call EXCEPT ![t] = IF t \in Procs THEN Result(t, FALSE, "timeout")
                                                     ELSE NoCall]
  /\ UNCHANGED <<connections, vcs, conns, left>>
  /\ UNCHANGED taskvars
  /\ UNCHANGED harness
  /\ UNCHANGED sendvars

\* case <-timeout: voiceConn.Disconnect(); return error.  The 10 s timer and
\* the 100th tick of the 100 ms ticker become ready together, and select
\* takes either.
JoinTimeout(t) ==
  /\ pc[t] = "j_wait"
  /\ call[t].elapsed >= ReadyWaitTicks - 1
  /\ conns' = [conns EXCEPT ![call[t].conn] = "closed"]
  /\ hist' = Returned(t, FALSE, "timeout")
  /\ vmMu' = NoThread
  /\ pc' = [pc EXCEPT ![t] = AfterReturn(t)]
  /\ call' = [call EXCEPT ![t] = IF t \in Procs THEN Result(t, FALSE, "timeout")
                                                     ELSE NoCall]
  /\ UNCHANGED <<connections, vcs, left>>
  /\ UNCHANGED taskvars
  /\ UNCHANGED harness
  /\ UNCHANGED sendvars

\* gopus.NewDecoder / gopus.NewEncoder fails: Disconnect, return the error.
JoinCodecFail(t) ==
  /\ pc[t] = "j_ready"
  /\ conns' = [conns EXCEPT ![call[t].conn] = "closed"]
  /\ hist' = Returned(t, FALSE, "codec")
  /\ vmMu' = NoThread
  /\ pc' = [pc EXCEPT ![t] = AfterReturn(t)]
  /\ call' = [call EXCEPT ![t] = IF t \in Procs THEN Result(t, FALSE, "codec")
                                                     ELSE NoCall]
  /\ UNCHANGED <<connections, vcs, left>>
  /\ UNCHANGED taskvars
  /\ UNCHANGED harness
  /\ UNCHANGED sendvars

\* A registration that reuses the session object it has just torn down.
JoinRegisterReuse(t) ==
  /\ pc[t] = "j_ready"
  /\ LET c == IF call[t].old # Nil THEN call[t].old ELSE call[t].conn IN
       /\ vcs' = [vcs EXCEPT ![c] = [NoSession EXCEPT
                                       !.created = TRUE,
                                       !.LastActivity = clock,
                                       !.GuildID = call[t].guild,
                                       !.ChannelID = call[t].channel]]
       /\ connections' = [connections EXCEPT ![call[t].guild] = c]
       /\ pc' = [pc EXCEPT ![t] = "j_return", ![ListenThread(c)] = "l_select"]
  /\ UNCHANGED <<vmMu, call, conns, hist, left>>
  /\ UNCHANGED taskvars
  /\ UNCHANGED harness
  /\ UNCHANGED sendvars

\* vc := &VoiceConnection{...}; vm.connections[guildID] = vc;
\* go vm.listenForVoice(vc)
JoinRegister(t) ==
  /\ pc[t] = "j_ready"
  /\ LET c == call[t].conn IN
       /\ vcs' = [vcs EXCEPT ![c] = [NoSession EXCEPT
                                       !.created = TRUE,
                                       !.LastActivity = clock,
                                       !.GuildID = call[t].guild,
                                       !.ChannelID = call[t].channel]]
       /\ connections' = [connections EXCEPT ![call[t].guild] = c]
       /\ pc' = [pc EXCEPT ![t] = "j_return", ![ListenThread(c)] = "l_select"]
  /\ UNCHANGED <<vmMu, call, conns, hist, left>>
  /\ UNCHANGED taskvars
  /\ UNCHANGED harness
  /\ UNCHANGED sendvars

\* return nil (the deferred vm.mu.Unlock() runs)
JoinReturn(t) ==
  /\ pc[t] = "j_return"
  /\ hist' = Returned(t, TRUE, "none")
  /\ vmMu' = NoThread
  /\ pc' = [pc EXCEPT ![t] = AfterReturn(t)]
  /\ call' = [call EXCEPT ![t] = IF t \in Procs THEN Result(t, TRUE, "none")
                                                     ELSE NoCall]
  /\ UNCHANGED <<connections, vcs, conns, left>>
  /\ UNCHANGED taskvars
  /\ UNCHANGED harness
  /\ UNCHANGED sendvars

\* ----------------------------------------------------- LeaveVoiceChannel
\* vm.mu.Lock(); defer vm.mu.Unlock()
LeaveLock(t) ==
  /\ pc[t] = "lv_lock"
  /\ vmMu = NoThread
  /\ vmReaders = 0
  /\ vmMu' = t
  /\ pc' = [pc EXCEPT ![t] = "lv_lookup"]
  /\ call' = [call EXCEPT ![t].before = connections[call[t].guild]]
  /\ UNCHANGED <<connections, vcs, conns, hist, left>>
  /\ UNCHANGED taskvars
  /\ UNCHANGED harness
  /\ UNCHANGED sendvars

\* vc, exists := vm.connections[guildID]; if !exists { return error }
LeaveNotFound(t) ==
  /\ pc[t] = "lv_lookup"
  /\ connections[call[t].guild] = Nil
  /\ hist' = Returned(t, FALSE, "notfound")
  /\ vmMu' = NoThread
  /\ pc' = [pc EXCEPT ![t] = AfterReturn(t)]
  /\ call' = [call EXCEPT ![t] = IF t \in Procs THEN Result(t, FALSE, "notfound")
                                                     ELSE NoCall]
  /\ UNCHANGED <<connections, vcs, conns, left>>
  /\ UNCHANGED taskvars
  /\ UNCHANGED harness
  /\ UNCHANGED sendvars

\* vc.cancel()
LeaveCancel(t) ==
  /\ pc[t] = "lv_lookup"
  /\ connections[call[t].guild] # Nil
  /\ LET vc == connections[call[t].guild] IN
       /\ call' = [call EXCEPT ![t].old = vc]
       /\ vcs' = [vcs EXCEPT ![vc].cancelled = TRUE]
  /\ pc' = [pc EXCEPT ![t] = "lv_disc"]
  /\ UNCHANGED <<connections, vmMu, conns, hist, left>>
  /\ UNCHANGED taskvars
  /\ UNCHANGED harness
  /\ UNCHANGED sendvars

\* vc.Connection.Disconnect()
LeaveDisconnect(t) ==
  /\ pc[t] = "lv_disc"
  /\ conns' = [conns EXCEPT ![call[t].old] = "closed"]
  /\ pc' = [pc EXCEPT ![t] = "lv_delete"]
  /\ UNCHANGED <<connections, vmMu, call, vcs, hist, left>>
  /\ UNCHANGED taskvars
  /\ UNCHANGED harness
  /\ UNCHANGED sendvars

\* The leave that keeps the registry entry.
LeaveDeleteKeep(t) ==
  /\ pc[t] = "lv_delete"
  /\ pc' = [pc EXCEPT ![t] = "lv_return"]
  /\ UNCHANGED <<connections, vmMu, call, vcs, conns, hist, left>>
  /\ UNCHANGED taskvars
  /\ UNCHANGED harness
  /\ UNCHANGED sendvars

\* The leave that empties the registry.
LeaveDeleteAll(t) ==
  /\ pc[t] = "lv_delete"
  /\ connections' = [g \in Guilds |-> Nil]
  /\ pc' = [pc EXCEPT ![t] = "lv_return"]
  /\ UNCHANGED <<vmMu, call, vcs, conns, hist, left>>
  /\ UNCHANGED taskvars
  /\ UNCHANGED harness
  /\ UNCHANGED sendvars

\* delete(vm.connections, guildID)
LeaveDelete(t) ==
  /\ pc[t] = "lv_delete"
  /\ connections' = [connections EXCEPT ![call[t].guild] = Nil]
  /\ pc' = [pc EXCEPT ![t] = "lv_return"]
  /\ UNCHANGED <<vmMu, call, vcs, conns, hist, left>>
  /\ UNCHANGED taskvars
  /\ UNCHANGED harness
  /\ UNCHANGED sendvars

\* return nil (the deferred vm.mu.Unlock() runs)
LeaveReturn(t) ==
  /\ pc[t] = "lv_return"
  /\ hist' = Returned(t, TRUE, "none")
  /\ left' = left \cup {call[t].old}
  /\ vmMu' = NoThread
  /\ pc' = [pc EXCEPT ![t] = AfterReturn(t)]
  /\ call' = [call EXCEPT ![t] = IF t \in Procs THEN Result(t, TRUE, "none")
                                                     ELSE NoCall]
  /\ UNCHANGED <<connections, vcs, conns>>
  /\ UNCHANGED taskvars
  /\ UNCHANGED harness
  /\ UNCHANGED sendvars

\* --------------------------------------------------------- listenForVoice
\* case packet := <-vc.Connection.OpusRecv:
\*   if packet != nil && packet.Opus != nil { vm.processVoicePacket(vc, packet) }
ListenRecvBody(s, k) ==
  /\ pc[ListenThread(s)] = "l_select"
  /\ conns[s] = "ready"
  /\ IF k = "nil"
       THEN UNCHANGED <<pc, pkt>>
       ELSE /\ pc' = [pc EXCEPT ![ListenThread(s)] = "l_packet"]
            /\ pkt' = [pkt EXCEPT ![s] =
                 [kind |-> k,
                  seq |-> IF k \in FrameKinds THEN @.seq + 1 ELSE @.seq]]
  /\ UNCHANGED <<connections, vmMu, call, vcs, conns, hist, left>>
  /\ UNCHANGED <<rpc, rec, utterances>>

ListenRecv(s, k) ==
  /\ k \in FrameKinds => vcs[s].AudioBuffer < MaxBuffered * FrameBytes
  /\ ListenRecvBody(s, k)
  /\ UNCHANGED harness
  /\ UNCHANGED sendvars

\* The decoded frame of the packet the listenForVoice task holds: its
\* number in the order of arrival on OpusRecv and the participant it is from
\* ("voice": the tracked speaker, "other": anybody else in the channel).
Frame(s) == [n |-> pkt[s].seq, who |-> pkt[s].kind]

\* A processVoicePacket that puts the frame in front of the buffered audio.
ProcessVoicePacketBodyPrepend(s) ==
  /\ pc[ListenThread(s)] = "l_packet"
  /\ pc' = [pc EXCEPT ![ListenThread(s)] = "l_select"]
  /\ pkt' = [pkt EXCEPT ![s].kind = "nil"]
  /\ IF pkt[s].kind \in FrameKinds
       THEN /\ vcs' = [vcs EXCEPT ![s].AudioBuffer = @ + FrameBytes,
                                  ![s].frames = <<Frame(s)>> \o @,
                                  ![s].written = @ + FrameBytes,
                                  ![s].LastActivity = clock,
                                  ![s].IsRecording = TRUE]
            /\ IF ~vcs[s].IsRecording
                 THEN /\ rpc' = [rpc EXCEPT ![s] = "r_loop"]
                      /\ rec' = [rec EXCEPT ![s] = NoRec]
                 ELSE UNCHANGED <<rpc, rec>>
       ELSE UNCHANGED <<vcs, rpc, rec>>
  /\ UNCHANGED <<connections, vmMu, call, conns, hist, left, utterances>>

\* A processVoicePacket that starts a handleVoiceRecording task for every
\* accepted frame.
ProcessVoicePacketBodyRespawn(s) ==
  /\ pc[ListenThread(s)] = "l_packet"
  /\ pc' = [pc EXCEPT ![ListenThread(s)] = "l_select"]
  /\ pkt' = [pkt EXCEPT ![s].kind = "nil"]
  /\ IF pkt[s].kind \in FrameKinds
       THEN /\ vcs' = [vcs EXCEPT ![s].AudioBuffer = @ + FrameBytes,
                                  ![s].frames = Append(@, Frame(s)),
                                  ![s].written = @ + FrameBytes,
                                  ![s].LastActivity = clock,
                                  ![s].IsRecording = TRUE]
            /\ rpc' = [rpc EXCEPT ![s] = "r_loop"]
            /\ rec' = [rec EXCEPT ![s] = NoRec]
       ELSE UNCHANGED <<vcs, rpc, rec>>
  /\ UNCHANGED <<connections, vmMu, call, conns, hist, left, utterances>>

\* A processVoicePacket that stamps the activity before it looks at the
\* packet.
ProcessVoicePacketUpdateTouch(s) ==
  /\ pc' = [pc EXCEPT ![ListenThread(s)] = "l_select"]
  /\ pkt' = [pkt EXCEPT ![s].kind = "nil"]
  /\ IF pkt[s].kind \in FrameKinds
       THEN /\ vcs' = [vcs EXCEPT ![s].AudioBuffer = @ + FrameBytes,
                                  ![s].frames = Append(@, Frame(s)),
                                  ![s].written = @ + FrameBytes,
                                  ![s].LastActivity = clock,
                                  ![s].IsRecording = TRUE]
            /\ IF ~vcs[s].IsRecording
                 THEN /\ rpc' = [rpc EXCEPT ![s] = "r_loop"]
                      /\ rec' = [rec EXCEPT ![s] = NoRec]
                 ELSE UNCHANGED <<rpc, rec>>
       ELSE /\ vcs' = [vcs EXCEPT ![s].LastActivity = clock]
            /\ UNCHANGED <<rpc, rec>>
  /\ UNCHANGED <<connections, vmMu, call, conns, hist, left, utterances>>

\* processVoicePacket: the early returns, then under vc.mu the append, the
\* activity timestamp and the start of handleVoiceRecording.
ProcessVoicePacketUpdate(s) ==
  /\ pc' = [pc EXCEPT ![ListenThread(s)] = "l_select"]
  /\ pkt' = [pkt EXCEPT ![s].kind = "nil"]
  /\ IF pkt[s].kind \in FrameKinds
       THEN /\ vcs' = [vcs EXCEPT ![s].AudioBuffer = @ + FrameBytes,
                                  ![s].frames = Append(@, Frame(s)),
                                  ![s].written = @ + FrameBytes,
                                  ![s].LastActivity = clock,
                                  ![s].IsRecording = TRUE]
            /\ IF ~vcs[s].IsRecording
                 THEN /\ rpc' = [rpc EXCEPT ![s] = "r_loop"]
                      /\ rec' = [rec EXCEPT ![s] = NoRec]
                 ELSE UNCHANGED <<rpc, rec>>
       ELSE UNCHANGED <<vcs, rpc, rec>>
  /\ UNCHANGED <<connections, vmMu, call, conns, hist, left, utterances>>

ProcessVoicePacketBody(s) ==
  /\ pc[ListenThread(s)] = "l_packet"
  /\ ProcessVoicePacketUpdate(s)

ProcessVoicePacket(s) ==
  /\ ProcessVoicePacketBody(s)
  /\ UNCHANGED harness
  /\ UNCHANGED sendvars

\* case <-vc.ctx.Done(): return
ListenCancelled(s) ==
  /\ pc[ListenThread(s)] = "l_select"
  /\ vcs[s].cancelled
  /\ pc' = [pc EXCEPT ![ListenThread(s)] = "l_done"]
  /\ UNCHANGED <<connections, vmMu, call, vcs, conns, hist, left>>
  /\ UNCHANGED taskvars
  /\ UNCHANGED harness
  /\ UNCHANGED sendvars

\* An inactivity check that only logs.
ListenInactivityLogOnly(s, inactive) ==
  /\ pc[ListenThread(s)] = "l_select"
  /\ ~vcs[s].cancelled
  /\ UNCHANGED <<pc, call>>
  /\ UNCHANGED <<connections, vmMu, vcs, conns, hist, left>>
  /\ UNCHANGED taskvars

\* case <-time.After(30 * time.Second): the inactivity check.  `inactive` is
\* the outcome of time.Since(vc.LastActivity) > 5*time.Minute, which depends
\* on how long the environment kept silent; when it holds the task calls
\* vm.LeaveVoiceChannel(vc.GuildID) and returns.  A timer started before the
\* cancellation fires in the same states as one that fired just before it, so
\* the step is taken from uncancelled states only.
ListenInactivityBody(s, inactive) ==
  /\ pc[ListenThread(s)] = "l_select"
  /\ ~vcs[s].cancelled
  /\ LET t == ListenThread(s) IN
       IF inactive
         THEN /\ pc' = [pc EXCEPT ![t] = "lv_lock"]
              /\ call' = [call EXCEPT ![t] = [NoCall EXCEPT
                                                !.op = "leave",
                                                !.guild = vcs[s].GuildID]]
         ELSE UNCHANGED <<pc, call>>
  /\ UNCHANGED <<connections, vmMu, vcs, conns, hist, left>>
  /\ UNCHANGED taskvars

ListenInactivity(s, inactive) ==
  /\ ListenInactivityBody(s, inactive)
  /\ UNCHANGED harness
  /\ UNCHANGED sendvars

\* --------------------------------------------------- handleVoiceRecording
\* A tick whose silence test is one tick late (silenceCount > 20).
RecTickBodyLate(s) ==
  /\ rpc[s] = "r_loop"
  /\ LET currentSize == vcs[s].AudioBuffer
         unchanged == currentSize = rec[s].lastBufferSize
         silenceCount == IF unchanged THEN rec[s].silenceCount + 1 ELSE 0
     IN
       /\ rec' = [rec EXCEPT ![s] = [lastBufferSize |-> currentSize,
                                     silenceCount |-> silenceCount,
                                     ticks |-> rec[s].ticks + 1]]
       /\ rpc' = [rpc EXCEPT ![s] =
            IF silenceCount > SilenceTicks /\ currentSize > MinAudioBytes
              THEN "r_process"
              ELSE IF silenceCount >= maxRecordingTime
                     THEN IF currentSize > MinAudioBytes THEN "r_process"
                                                         ELSE "r_discard"
                     ELSE "r_loop"]
  /\ UNCHANGED regvars
  /\ UNCHANGED <<pkt, utterances>>

\* A tick whose silence test ignores the byte floor.
RecTickBodyNoFloor(s) ==
  /\ rpc[s] = "r_loop"
  /\ LET currentSize == vcs[s].AudioBuffer
         unchanged == currentSize = rec[s].lastBufferSize
         silenceCount == IF unchanged THEN rec[s].silenceCount + 1 ELSE 0
     IN
       /\ rec' = [rec EXCEPT ![s] = [lastBufferSize |-> currentSize,
                                     silenceCount |-> silenceCount,
                                     ticks |-> rec[s].ticks + 1]]
       /\ rpc' = [rpc EXCEPT ![s] =
            IF silenceCount >= SilenceTicks
              THEN "r_process"
              ELSE "r_loop"]
  /\ UNCHANGED regvars
  /\ UNCHANGED <<pkt, utterances>>

\* One ticker tick of handleVoiceRecording: the buffer size is read under
\* vc.mu.RLock(), then the silence count and the two boundary tests follow.
RecTickUpdate(s) ==
  /\ LET currentSize == vcs[s].AudioBuffer
         unchanged == currentSize = rec[s].lastBufferSize
         silenceCount == IF unchanged THEN rec[s].silenceCount + 1 ELSE 0
     IN
       /\ rec' = [rec EXCEPT ![s] = [lastBufferSize |-> currentSize,
                                     silenceCount |-> silenceCount,
                                     ticks |-> rec[s].ticks + 1]]
       /\ rpc' = [rpc EXCEPT ![s] =
            IF silenceCount >= SilenceTicks /\ currentSize > MinAudioBytes
              THEN "r_process"
              ELSE IF silenceCount >= maxRecordingTime
                     THEN IF currentSize > MinAudioBytes THEN "r_process"
                                                         ELSE "r_discard"
                     ELSE "r_loop"]
  /\ UNCHANGED regvars
  /\ UNCHANGED <<pkt, utterances>>

RecTickBody(s) ==
  /\ rpc[s] = "r_loop"
  /\ RecTickUpdate(s)

RecTick(s) ==
  /\ rec[s].ticks < MaxSpecTicks
  /\ RecTickBody(s)
  /\ UNCHANGED harness
  /\ UNCHANGED sendvars

\* case <-vc.ctx.Done(): return
RecCancelled(s) ==
  /\ rpc[s] = "r_loop"
  /\ vcs[s].cancelled
  /\ rpc' = [rpc EXCEPT ![s] = "r_done"]
  /\ UNCHANGED regvars
  /\ UNCHANGED <<pkt, rec, utterances>>
  /\ UNCHANGED harness
  /\ UNCHANGED sendvars

\* The utterance processRecordedAudio takes out of the buffer: its size, the
\* offset of its first byte in the stream written to the buffer, the stage of
\* its processing (the conversion to WAV comes first) and the time its
\* conversion has taken.
NewUtterance(s, audioData) ==
  [tick |-> clock, bytes |-> audioData, from |-> vcs[s].written - audioData,
   frames |-> vcs[s].frames, stage |-> "wav", stt |-> 0, waited |-> 0,
   text |-> "none", log |-> "none"]

\* A flush that copies the buffer and does not reset it.
ProcessRecordedAudioNoReset(s) ==
  /\ rpc[s] = "r_process"
  /\ LET audioData == vcs[s].AudioBuffer IN
       /\ vcs' = [vcs EXCEPT ![s].IsRecording = FALSE]
       /\ utterances' = [utterances EXCEPT ![s] =
            IF audioData < MinAudioBytes
              THEN @
              ELSE Append(@, NewUtterance(s, audioData))]
  /\ rpc' = [rpc EXCEPT ![s] = "r_done"]
  /\ UNCHANGED <<connections, vmMu, pc, call, conns, hist, left>>
  /\ UNCHANGED <<pkt, rec>>
  /\ UNCHANGED harness
  /\ UNCHANGED sendvars

\* A flush that leaves IsRecording set.
ProcessRecordedAudioKeepFlag(s) ==
  /\ rpc[s] = "r_process"
  /\ LET audioData == vcs[s].AudioBuffer IN
       /\ vcs' = [vcs EXCEPT ![s].AudioBuffer = 0, ![s].frames = <<>>]
       /\ utterances' = [utterances EXCEPT ![s] =
            IF audioData < MinAudioBytes
              THEN @
              ELSE Append(@, NewUtterance(s, audioData))]
  /\ rpc' = [rpc EXCEPT ![s] = "r_done"]
  /\ UNCHANGED <<connections, vmMu, pc, call, conns, hist, left>>
  /\ UNCHANGED <<pkt, rec>>
  /\ UNCHANGED harness
  /\ UNCHANGED sendvars

\* processRecordedAudio: copy and reset the buffer and clear IsRecording
\* under vc.mu; audio shorter than the floor is skipped, the rest is handed
\* to the transcription path.
ProcessRecordedAudioUpdate(s) ==
  /\ LET audioData == vcs[s].AudioBuffer IN
       /\ vcs' = [vcs EXCEPT ![s].AudioBuffer = 0, ![s].frames = <<>>,
                                  ![s].IsRecording = FALSE]
       /\ utterances' = [utterances EXCEPT ![s] =
            IF audioData < MinAudioBytes
              THEN @
              ELSE Append(@, NewUtterance(s, audioData))]
  /\ rpc' = [rpc EXCEPT ![s] = "r_done"]
  /\ UNCHANGED <<connections, vmMu, pc, call, conns, hist, left>>
  /\ UNCHANGED <<pkt, rec>>
  /\ UNCHANGED harness
  /\ UNCHANGED sendvars

ProcessRecordedAudio(s) ==
  /\ rpc[s] = "r_process"
  /\ ProcessRecordedAudioUpdate(s)

\* The discard branch: vc.AudioBuffer.Reset(); vc.IsRecording = false
DiscardUpdate(s) ==
  /\ vcs' = [vcs EXCEPT ![s].AudioBuffer = 0, ![s].frames = <<>>,
                             ![s].IsRecording = FALSE]
  /\ rpc' = [rpc EXCEPT ![s] = "r_done"]
  /\ UNCHANGED <<connections, vmMu, pc, call, conns, hist, left>>
  /\ UNCHANGED <<pkt, rec, utterances>>
  /\ UNCHANGED harness
  /\ UNCHANGED sendvars

DiscardRecording(s) ==
  /\ rpc[s] = "r_discard"
  /\ DiscardUpdate(s)

\* ----------------------------------------------------------- Spec
\* The registry: concurrent callers of JoinVoiceChannel / LeaveVoiceChannel
\* and the listenForVoice tasks' cancellation and inactivity leave.  Packet
\* ingestion and segmentation write only a session's buffer, timestamp and
\* recording flag, which no step of Join or Leave reads; they run in
\* SpecLeave and SpecSeg.
Next ==
  \/ \E t \in Procs, g \in OneGuild, c \in Channels : CallJoin(t, g, c)
  \/ \E t \in Procs, g \in OneGuild : CallLeave(t, g)
  \/ \E t \in Procs : CallerResume(t)
  \/ \E t \in Threads : JoinLock(t)
  \/ \E t \in Threads : JoinCheckExisting(t)
  \/ \E t \in Threads : JoinCancelOld(t)
  \/ \E t \in Threads : JoinDisconnectOld(t)
  \/ \E t \in Threads : JoinDeleteOld(t)
  \/ \E t \in Threads : JoinOpenFail(t)
  \/ \E t \in Threads : JoinOpen(t)
  \/ \E c \in Sessions : ConnReady(c)
  \/ \E t \in Threads : JoinWaitTick(t)
  \/ \E t \in Threads : JoinTimeout(t)
  \/ \E t \in Threads : JoinCodecFail(t)
  \/ \E t \in Threads : JoinRegister(t)
  \/ \E t \in Threads : JoinReturn(t)
  \/ \E t \in Threads : LeaveLock(t)
  \/ \E t \in Threads : LeaveNotFound(t)
  \/ \E t \in Threads : LeaveCancel(t)
  \/ \E t \in Threads : LeaveDisconnect(t)
  \/ \E t \in Threads : LeaveDelete(t)
  \/ \E t \in Threads : LeaveReturn(t)
  \/ \E s \in Sessions : ListenCancelled(s)
  \/ \E s \in Sessions, inactive \in BOOLEAN : ListenInactivity(s, inactive)

Spec == Init /\ [][Next]_vars

\* ------------------------------------------------------ SpecLeave
\* The state JoinVoiceChannel("g1", "c1") leaves behind once it returned and
\* its caller resumed: session 1 registered, its listenForVoice task waiting.
Joined ==
  /\ connections = [g \in Guilds |-> IF g = "g1" THEN 1 ELSE Nil]
  /\ vmMu = NoThread
  /\ pc = [t \in Threads |->
             IF t \in Procs THEN "idle"
             ELSE IF t = ListenThread(1) THEN "l_select" ELSE "l_none"]
  /\ call = [t \in Threads |-> NoCall]
  /\ vcs = [s \in Sessions |->
              IF s = 1 THEN [NoSession EXCEPT !.created = TRUE,
                                              !.GuildID = "g1",
                                              !.ChannelID = "c1"]
                       ELSE NoSession]
  /\ conns = [s \in Sessions |-> IF s = 1 THEN "ready" ELSE "unused"]
  /\ pkt = [s \in Sessions |-> NoPkt]
  /\ rpc = [s \in Sessions |-> "r_none"]
  /\ rec = [s \in Sessions |-> NoRec]
  /\ utterances = [s \in Sessions |-> <<>>]
  /\ hist = [NoHist EXCEPT !.serial = [g \in Guilds |->
                                         IF g = "g1" THEN "c1" ELSE "-"]]
  /\ left = {}

InitLeave ==
  /\ Joined
  /\ clock = 0
  /\ fed = FALSE
  /\ feed = NoFeed
  /\ SendInit

NextLeave ==
  \/ \E t \in Procs, g \in OneGuild : CallLeave(t, g)
  \/ \E t \in Procs : CallerResume(t)
  \/ \E t \in Threads : LeaveLock(t)
  \/ \E t \in Threads : LeaveNotFound(t)
  \/ \E t \in Threads : LeaveCancel(t)
  \/ \E t \in Threads : LeaveDisconnect(t)
  \/ \E t \in Threads : LeaveDelete(t)
  \/ \E t \in Threads : LeaveReturn(t)
  \/ \E s \in Sessions, k \in PacketKinds : ListenRecv(s, k)
  \/ \E s \in Sessions : ProcessVoicePacket(s)
  \/ \E s \in Sessions : ListenCancelled(s)
  \/ \E s \in Sessions, inactive \in BOOLEAN : ListenInactivity(s, inactive)
  \/ \E s \in Sessions : RecTick(s)
  \/ \E s \in Sessions : RecCancelled(s)

SpecLeave == InitLeave /\ [][NextLeave]_vars

\* -------------------------------------------------------- SpecSeg
\* The buffer traces: the buffer grows by one frame before each of the first
\* `grow` ticks, stays unchanged for the next `stall` ticks, then grows again.
GrowChoices == {1, 4, 5, 40, MaxTick}
StallChoices == {0, 5, 19, 20, 25, MaxTick}
Traces == [grow : GrowChoices, stall : StallChoices]

\* The buffer grows during period p (between tick p - 1 and tick p).
GrowthPeriod(p) == p <= feed.grow \/ p > feed.grow + feed.stall

\* The segmenter is between two ticks (not inside a flush or a discard).
BetweenTicks == rpc[1] \in {"r_none", "r_loop", "r_done"}

InitSeg ==
  /\ Joined
  /\ clock = 0
  /\ fed = FALSE
  /\ feed \in Traces
  /\ SendInit

\* The frame of the current period arrives on OpusRecv.
SegFeed ==
  /\ clock < MaxTick
  /\ GrowthPeriod(clock + 1)
  /\ ~fed
  /\ BetweenTicks
  /\ ListenRecvBody(1, "voice")
  /\ fed' = TRUE
  /\ UNCHANGED <<clock, feed>>
  /\ UNCHANGED sendvars

SegProcess == ProcessVoicePacket(1)

\* 100 ms pass: the ticker of handleVoiceRecording (when it runs) ticks.
SegTick ==
  /\ clock < MaxTick
  /\ pc[ListenThread(1)] = "l_select"
  /\ GrowthPeriod(clock + 1) => fed
  /\ BetweenTicks
  /\ clock' = clock + 1
  /\ fed' = FALSE
  /\ UNCHANGED feed
  /\ UNCHANGED sendvars
  /\ IF rpc[1] = "r_loop"
       THEN RecTickBody(1)
       ELSE /\ UNCHANGED regvars
            /\ UNCHANGED taskvars

SegFlush == ProcessRecordedAudio(1)

SegDiscard == DiscardRecording(1)

NextSeg ==
  \/ SegFeed
  \/ SegProcess
  \/ SegTick
  \/ SegFlush
  \/ SegDiscard

SpecSeg == InitSeg /\ [][NextSeg]_vars

\* ------------------------------------------------- handleAIQuery (voice)
\* The text handler has its response and reaches the registry lookup.
HandlerCall ==
  /\ hpc = "h_idle"
  /\ hpc' = "h_rlock"
  /\ hvc' = Nil
  /\ UNCHANGED <<vmReaders, play, sent, watch>>
  /\ UNCHANGED regvars
  /\ UNCHANGED taskvars
  /\ UNCHANGED harness

\* h.voiceManager.mu.RLock()
HandlerRLock ==
  /\ hpc = "h_rlock"
  /\ vmMu = NoThread
  /\ vmReaders' = vmReaders + 1
  /\ hpc' = "h_read"
  /\ UNCHANGED <<hvc, play, sent, watch>>
  /\ UNCHANGED regvars
  /\ UNCHANGED taskvars
  /\ UNCHANGED harness

\* vc, hasVoiceConnection := h.voiceManager.connections[GuildID]; RUnlock();
\* without a session the handler only sends text.
HandlerRead(g) ==
  /\ hpc = "h_read"
  /\ hvc' = connections[g]
  /\ vmReaders' = vmReaders - 1
  /\ hpc' = IF connections[g] # Nil THEN "h_tts" ELSE "h_idle"
  /\ UNCHANGED <<play, sent, watch>>
  /\ UNCHANGED regvars
  /\ UNCHANGED taskvars
  /\ UNCHANGED harness

\* h.rag.AI.TextToSpeech(response) fails: logged, nothing is played.
HandlerTTSFail ==
  /\ hpc = "h_tts"
  /\ hpc' = "h_idle"
  /\ UNCHANGED <<vmReaders, hvc, play, sent, watch>>
  /\ UNCHANGED regvars
  /\ UNCHANGED taskvars
  /\ UNCHANGED harness

\* The slot of the next SendAudio execution.
FreePlay == CHOOSE i \in PlaySlots :
              /\ play[i].pc = "p_none"
              /\ \A j \in PlaySlots : play[j].pc = "p_none" => i <= j

\* A SendAudio(vc, ttsAudio) execution as it is called, on a session for
\* which LeaveVoiceChannel has returned or not.
NewPlay(vc, origin) ==
  [NoPlay EXCEPT !.pc = "p_check", !.vc = vc, !.origin = origin,
                 !.wasLeft = vc \in left]

\* go func() { h.voiceManager.SendAudio(vc, ttsAudio) }()
HandlerSpawn ==
  /\ hpc = "h_tts"
  /\ \E i \in PlaySlots : play[i].pc = "p_none"
  /\ play' = [play EXCEPT ![FreePlay] = NewPlay(hvc, "text")]
  /\ hpc' = "h_idle"
  /\ UNCHANGED <<vmReaders, hvc, sent, watch>>
  /\ UNCHANGED regvars
  /\ UNCHANGED taskvars
  /\ UNCHANGED harness

\* ---------------------------------------------------------------- SendAudio
\* if vc.Connection == nil { return error }.  Connection is set when the
\* VoiceConnection is constructed and no code clears it.
PlayCheck(i) ==
  /\ play[i].pc = "p_check"
  /\ play' = [play EXCEPT ![i] =
       IF ~vcs[play[i].vc].created
         THEN [@ EXCEPT !.pc = "p_done", !.err = "noconn"]
         ELSE [@ EXCEPT !.pc = "p_convert"]]
  /\ UNCHANGED <<vmReaders, hpc, hvc, sent, watch>>
  /\ UNCHANGED regvars
  /\ UNCHANGED taskvars
  /\ UNCHANGED harness

\* os.WriteFile / vm.convertToPCM fails: return the error.
PlayConvertFail(i) ==
  /\ play[i].pc = "p_convert"
  /\ play' = [play EXCEPT ![i] = [@ EXCEPT !.pc = "p_done", !.waited = 0,
                                           !.err = "convert"]]
  /\ UNCHANGED <<vmReaders, hpc, hvc, sent, watch>>
  /\ UNCHANGED regvars
  /\ UNCHANGED taskvars
  /\ UNCHANGED harness

\* The MP3 is saved and converted to a PCM file of n chunks of 3840 bytes;
\* playPCMFile opens it and signals Speaking(true).
PlayConvert(i, n) ==
  /\ play[i].pc = "p_convert"
  /\ play' = [play EXCEPT ![i] = [@ EXCEPT !.pc = "p_loop", !.waited = 0,
                                           !.frames = n]]
  /\ UNCHANGED <<vmReaders, hpc, hvc, sent, watch>>
  /\ UNCHANGED regvars
  /\ UNCHANGED taskvars
  /\ UNCHANGED harness

\* ------------------------------------------------------------- playPCMFile
\* select { case <-vc.ctx.Done(): return error; default: }
PlayCancelled(i) ==
  /\ play[i].pc \in {"p_loop", "p_send"}
  /\ vcs[play[i].vc].cancelled
  /\ play' = [play EXCEPT ![i] = [@ EXCEPT !.pc = "p_done",
                                           !.err = "cancelled"]]
  /\ UNCHANGED <<vmReaders, hpc, hvc, sent, watch>>
  /\ UNCHANGED regvars
  /\ UNCHANGED taskvars
  /\ UNCHANGED harness

\* file.Read returns io.EOF: break, "Finished playing audio", return nil.
PlayEOF(i) ==
  /\ play[i].pc = "p_loop"
  /\ ~vcs[play[i].vc].cancelled
  /\ play[i].frame = play[i].frames
  /\ play' = [play EXCEPT ![i] = [@ EXCEPT !.pc = "p_done"]]
  /\ UNCHANGED <<vmReaders, hpc, hvc, sent, watch>>
  /\ UNCHANGED regvars
  /\ UNCHANGED taskvars
  /\ UNCHANGED harness

\* file.Read fills the buffer with the next chunk; vc.encoder.Encode either
\* fails (log, continue with the next chunk) or yields the frame to send.
PlayRead(i, encoded) ==
  /\ play[i].pc = "p_loop"
  /\ ~vcs[play[i].vc].cancelled
  /\ play[i].frame < play[i].frames
  /\ play' = [play EXCEPT ![i] =
       [@ EXCEPT !.frame = @ + 1, !.waited = 0,
                 !.pc = IF encoded THEN "p_send" ELSE "p_loop"]]
  /\ UNCHANGED <<vmReaders, hpc, hvc, sent, watch>>
  /\ UNCHANGED regvars
  /\ UNCHANGED taskvars
  /\ UNCHANGED harness

\* A send whose frame also lands in the audio buffer of the session.
PlaySendEcho(i) ==
  /\ play[i].pc = "p_send"
  /\ play[i].waited < SendWaitFrames
  /\ sent' = Append(sent, [task |-> i, vc |-> play[i].vc,
                           frame |-> play[i].frame,
                           first |-> play[i].handed = 0,
                           gap |-> play[i].since,
                           late |-> vcs[play[i].vc].cancelled])
  /\ play' = [play EXCEPT ![i] = [@ EXCEPT !.pc = "p_loop", !.since = 0,
                                           !.waited = 0, !.handed = @ + 1]]
  /\ vcs' = [vcs EXCEPT ![play[i].vc].AudioBuffer = @ + FrameBytes]
  /\ UNCHANGED <<vmReaders, hpc, hvc, watch>>
  /\ UNCHANGED <<connections, vmMu, pc, call, conns, hist, left>>
  /\ UNCHANGED taskvars
  /\ UNCHANGED harness

\* case vc.Connection.OpusSend <- opusData: the outbound path takes the frame
\* (it takes one whenever it has room; nothing in playPCMFile waits for the
\* frame duration).
PlaySend(i) ==
  /\ play[i].pc = "p_send"
  /\ play[i].waited < SendWaitFrames
  /\ sent' = Append(sent, [task |-> i, vc |-> play[i].vc,
                           frame |-> play[i].frame,
                           first |-> play[i].handed = 0,
                           gap |-> play[i].since,
                           late |-> vcs[play[i].vc].cancelled])
  /\ play' = [play EXCEPT ![i] = [@ EXCEPT !.pc = "p_loop", !.since = 0,
                                           !.waited = 0, !.handed = @ + 1]]
  /\ UNCHANGED <<vmReaders, hpc, hvc, watch>>
  /\ UNCHANGED regvars
  /\ UNCHANGED taskvars
  /\ UNCHANGED harness

\* A send timeout that gives up the playback.
PlaySendTimeoutAbort(i) ==
  /\ play[i].pc = "p_send"
  /\ play[i].waited = SendWaitFrames
  /\ play' = [play EXCEPT ![i] = [@ EXCEPT !.pc = "p_done", !.waited = 0,
                                           !.err = "timeout"]]
  /\ UNCHANGED <<vmReaders, hpc, hvc, sent, watch>>
  /\ UNCHANGED regvars
  /\ UNCHANGED taskvars
  /\ UNCHANGED harness

\* A send timeout that tries the same frame again.
PlaySendTimeoutRetry(i) ==
  /\ play[i].pc = "p_send"
  /\ play[i].waited = SendWaitFrames
  /\ play' = [play EXCEPT ![i] = [@ EXCEPT !.waited = 0,
                                           !.timedOut = @ + 1]]
  /\ UNCHANGED <<vmReaders, hpc, hvc, sent, watch>>
  /\ UNCHANGED regvars
  /\ UNCHANGED taskvars
  /\ UNCHANGED harness

\* case <-time.After(100 * time.Millisecond): log, go on with the next chunk.
PlaySendTimeout(i) ==
  /\ play[i].pc = "p_send"
  /\ play[i].waited = SendWaitFrames
  /\ play' = [play EXCEPT ![i] = [@ EXCEPT !.pc = "p_loop", !.waited = 0,
                                           !.timedOut = @ + 1]]
  /\ UNCHANGED <<vmReaders, hpc, hvc, sent, watch>>
  /\ UNCHANGED regvars
  /\ UNCHANGED taskvars
  /\ UNCHANGED harness

\* One frame duration (20 ms) passes.  A send whose 100 ms timer has fired is
\* resolved before more time passes.  `since` counts the frame durations
\* since the execution's last hand-over, up to the one that pacing asks for.
PlayTime ==
  /\ \A i \in PlaySlots : play[i].pc = "p_send" =>
                            play[i].waited < SendWaitFrames
  /\ \E i \in PlaySlots : play[i].pc \notin {"p_none", "p_done"}
  /\ play' = [i \in PlaySlots |->
       IF play[i].pc \in {"p_none", "p_done"} THEN play[i]
       ELSE [play[i] EXCEPT
               !.waited = IF play[i].pc = "p_send" THEN @ + 1 ELSE @,
               !.since = IF @ < PaceFrames THEN @ + 1 ELSE @]]
  /\ UNCHANGED <<vmReaders, hpc, hvc, sent, watch>>
  /\ UNCHANGED regvars
  /\ UNCHANGED taskvars
  /\ UNCHANGED harness

\* -------------------------------------------------------- SpecSend
\* A joined session, the text handler that plays its answers on it, and one
\* LeaveVoiceChannel call (which finds the session: it is the only one).
InitSend ==
  /\ Joined
  /\ clock = 0
  /\ fed = FALSE
  /\ feed = NoFeed
  /\ SendInit

NextSend ==
  \/ HandlerCall
  \/ HandlerRLock
  \/ \E g \in OneGuild : HandlerRead(g)
  \/ HandlerTTSFail
  \/ HandlerSpawn
  \/ \E i \in PlaySlots : PlayCheck(i)
  \/ \E i \in PlaySlots : PlayConvertFail(i)
  \/ \E i \in PlaySlots, n \in 0..MaxFrames : PlayConvert(i, n)
  \/ \E i \in PlaySlots : PlayCancelled(i)
  \/ \E i \in PlaySlots : PlayEOF(i)
  \/ \E i \in PlaySlots, encoded \in BOOLEAN : PlayRead(i, encoded)
  \/ \E i \in PlaySlots : PlaySend(i)
  \/ \E i \in PlaySlots : PlaySendTimeout(i)
  \/ PlayTime
  \/ \E g \in OneGuild : CallLeave(<<"proc", 1>>, g)
  \/ \E t \in Threads : LeaveLock(t)
  \/ \E t \in Threads : LeaveCancel(t)
  \/ \E t \in Threads : LeaveDisconnect(t)
  \/ \E t \in Threads : LeaveDelete(t)
  \/ \E t \in Threads : LeaveReturn(t)

SpecSend == InitSend /\ [][NextSend]_vars

\* ------------------------------------------------------- SpecFrame
\* One SendAudio execution on a joined session, frame by frame, with the
\* time that passes and one LeaveVoiceChannel call.
NextFrame ==
  \/ HandlerCall
  \/ HandlerRLock
  \/ \E g \in OneGuild : HandlerRead(g)
  \/ HandlerTTSFail
  \/ play[1].pc = "p_none" /\ HandlerSpawn
  \/ PlayCheck(1)
  \/ PlayConvertFail(1)
  \/ \E n \in 0..MaxFrames : PlayConvert(1, n)
  \/ PlayCancelled(1)
  \/ PlayEOF(1)
  \/ \E encoded \in BOOLEAN : PlayRead(1, encoded)
  \/ PlaySend(1)
  \/ PlaySendTimeout(1)
  \/ PlayTime
  \/ \E g \in OneGuild : CallLeave(<<"proc", 1>>, g)
  \/ \E t \in Threads : LeaveLock(t)
  \/ \E t \in Threads : LeaveCancel(t)
  \/ \E t \in Threads : LeaveDisconnect(t)
  \/ \E t \in Threads : LeaveDelete(t)
  \/ \E t \in Threads : LeaveReturn(t)

SpecFrame == InitSend /\ [][NextFrame]_vars

\* ------------------------------------- processRecordedAudio, continued
\* The utterance u of session s is being processed by the goroutine that
\* took it (processRecordedAudio has not returned).
InFlight(s, u) == utterances[s][u].stage \in {"wav", "stt", "answer"}

\* The utterance u of session s moves to another stage.
Staged(s, u, stage) ==
  /\ utterances' = [utterances EXCEPT ![s][u].stage = stage]
  /\ UNCHANGED regvars
  /\ UNCHANGED <<pkt, rpc, rec>>
  /\ UNCHANGED harness

\* vm.pcmToWav(audioData); an error is logged and the call returns.
ProcWav(s, u, ok) ==
  /\ u \in 1..Len(utterances[s])
  /\ utterances[s][u].stage = "wav"
  /\ Staged(s, u, IF ok THEN "stt" ELSE "dropped")
  /\ UNCHANGED sendvars

\* A transcription failure that closes the session.
ProcSTTFatal(s, u, outcome) ==
  /\ u \in 1..Len(utterances[s])
  /\ utterances[s][u].stage = "stt"
  /\ utterances' = [utterances EXCEPT
       ![s][u].stage = IF outcome = "text" THEN "answer" ELSE "dropped",
       ![s][u].stt = @ + 1]
  /\ vcs' = [vcs EXCEPT ![s].cancelled = (outcome # "text")]
  /\ UNCHANGED <<connections, vmMu, pc, call, conns, hist, left>>
  /\ UNCHANGED <<pkt, rpc, rec>>
  /\ UNCHANGED harness
  /\ UNCHANGED sendvars

\* AI.SpeechToText(wavData): an error or an empty text is logged and the call
\* returns.
ProcSTT(s, u, outcome) ==
  /\ u \in 1..Len(utterances[s])
  /\ utterances[s][u].stage = "stt"
  /\ utterances' = [utterances EXCEPT
       ![s][u].stage = IF outcome = "text" THEN "answer" ELSE "dropped",
       ![s][u].stt = @ + 1]
  /\ UNCHANGED regvars
  /\ UNCHANGED <<pkt, rpc, rec>>
  /\ UNCHANGED harness
  /\ UNCHANGED sendvars

\* session.Guild, session.Channel, SearchRelevantContext, GenerateResponse:
\* on an error of any of them the call logs and returns; otherwise it starts
\* the goroutine that sends the text and the goroutine that synthesizes and
\* plays the answer, logs the interaction and returns.
ProcAnswer(s, u, ok) ==
  /\ u \in 1..Len(utterances[s])
  /\ utterances[s][u].stage = "answer"
  /\ Staged(s, u, IF ok THEN "tts" ELSE "dropped")
  /\ UNCHANGED sendvars

\* AI.TextToSpeech(response) fails in the playing goroutine: logged.
ProcTTSFail(s, u) ==
  /\ u \in 1..Len(utterances[s])
  /\ utterances[s][u].stage = "tts"
  /\ Staged(s, u, "done")
  /\ UNCHANGED sendvars

\* vm.SendAudio(vc, ttsAudio) is called in the playing goroutine.
ProcSendAudio(s, u) ==
  /\ u \in 1..Len(utterances[s])
  /\ utterances[s][u].stage = "tts"
  /\ \E i \in PlaySlots : play[i].pc = "p_none"
  /\ play' = [play EXCEPT ![FreePlay] = NewPlay(s, "voice")]
  /\ Staged(s, u, "done")
  /\ UNCHANGED <<vmReaders, hpc, hvc, sent, watch>>

\* -------------------------------------------------------- SpecProc
\* A joined session whose peers speak in bursts of BurstFrames frames (one
\* 100 ms ticker period of audio), its segmenter, the processing of every
\* utterance and the SendAudio call for its answer up to playPCMFile's loop
\* (the loop runs in SpecSend; it changes nothing but the playback's own
\* state).
BurstBytes == BurstFrames * FrameBytes

\* The next frame of a burst arrives on OpusRecv.
ProcFeed ==
  /\ vcs[1].written < MaxBursts * BurstBytes
  /\ ListenRecvBody(1, "voice")
  /\ UNCHANGED harness
  /\ UNCHANGED sendvars

\* The ticker of handleVoiceRecording ticks between two bursts.
ProcTick ==
  /\ pc[ListenThread(1)] = "l_select"
  /\ vcs[1].written % BurstBytes = 0
  /\ RecTickBody(1)
  /\ UNCHANGED harness
  /\ UNCHANGED sendvars

NextProc ==
  \/ ProcFeed
  \/ ProcessVoicePacket(1)
  \/ ProcTick
  \/ ProcessRecordedAudio(1)
  \/ \E u \in 1..MaxBursts, ok \in BOOLEAN : ProcWav(1, u, ok)
  \/ \E u \in 1..MaxBursts, outcome \in {"text", "error", "empty"} :
       ProcSTT(1, u, outcome)
  \/ \E u \in 1..MaxBursts, ok \in BOOLEAN : ProcAnswer(1, u, ok)
  \/ \E u \in 1..MaxBursts : ProcTTSFail(1, u)
  \/ \E u \in 1..MaxBursts : ProcSendAudio(1, u)
  \/ \E i \in PlaySlots : PlayCheck(i)
  \/ \E i \in PlaySlots : PlayConvertFail(i)
  \/ \E i \in PlaySlots, n \in 0..MaxFrames : PlayConvert(i, n)

SpecProc == InitSend /\ [][NextProc]_vars

\* ------------------------------------------------------- SpecWatch
\* A joined session and its listenForVoice task, with time counted in units
\* of 15 s: the time.After(30 s) of the select fires 2 units after the select
\* was entered, and LastActivity is older than 5 minutes once more than 20
\* units have passed since it was set (counted up to 21).
InitWatch ==
  /\ Joined
  /\ clock = 0
  /\ fed = FALSE
  /\ feed = NoFeed
  /\ SendInit

\* 15 s pass while the task waits in its select.  A fired timer and a
\* received packet are handled before more time passes.
WatchTime ==
  /\ pc[ListenThread(1)] = "l_select"
  /\ watch.timer < TimerUnits
  /\ watch' = [watch EXCEPT
                 !.timer = @ + 1,
                 !.silent = IF @ <= InactivityUnits THEN @ + 1 ELSE @]
  /\ UNCHANGED <<vmReaders, hpc, hvc, play, sent>>
  /\ UNCHANGED regvars
  /\ UNCHANGED taskvars
  /\ UNCHANGED harness

\* A packet is taken from OpusRecv; the next select creates a new timer.
WatchRecv(k) ==
  /\ k \in FrameKinds => vcs[1].AudioBuffer < MaxBuffered * FrameBytes
  /\ ListenRecvBody(1, k)
  /\ watch' = [watch EXCEPT !.timer = 0]
  /\ UNCHANGED <<vmReaders, hpc, hvc, play, sent>>
  /\ UNCHANGED harness

\* processVoicePacket returns and the loop enters the select again; an
\* accepted frame has set LastActivity.
WatchProcess ==
  /\ ProcessVoicePacketBody(1)
  /\ watch' = [watch EXCEPT
                 !.timer = 0,
                 !.silent = IF pkt[1].kind \in FrameKinds THEN 0 ELSE @]
  /\ UNCHANGED <<vmReaders, hpc, hvc, play, sent>>
  /\ UNCHANGED harness

\* case <-time.After(30 * time.Second): the inactivity check.
WatchInactivity ==
  /\ watch.timer = TimerUnits
  /\ ListenInactivityBody(1, watch.silent > InactivityUnits)
  /\ watch' = [watch EXCEPT !.timer = 0]
  /\ UNCHANGED <<vmReaders, hpc, hvc, play, sent>>
  /\ UNCHANGED harness

\* The steps of the listenForVoice task in its loop.
WatchTask ==
  \/ WatchProcess
  \/ WatchInactivity
  \/ ListenCancelled(1)

\* The steps of thread t inside LeaveVoiceChannel.
LeaveStep(t) ==
  \/ LeaveLock(t)
  \/ LeaveNotFound(t)
  \/ LeaveCancel(t)
  \/ LeaveDisconnect(t)
  \/ LeaveDelete(t)
  \/ LeaveReturn(t)

NextWatch ==
  \/ WatchTime
  \/ \E k \in PacketKinds : WatchRecv(k)
  \/ \E g \in OneGuild : CallLeave(<<"proc", 1>>, g)
  \/ WatchTask
  \/ \E t \in Threads : LeaveStep(t)

\* Time keeps passing and every thread is scheduled; packets arrive as the
\* peers send them.
SpecWatch ==
  /\ InitWatch
  /\ [][NextWatch]_vars
  /\ SF_vars(WatchTime)
  /\ WF_vars(WatchTask)
  /\ \A t \in Threads : WF_vars(LeaveStep(t))

\* --------------------------------------------------------- SpecGet
\* One caller of JoinVoiceChannel / LeaveVoiceChannel and the text handler's
\* registry lookup beside it.
NextGet ==
  \/ \E g \in OneGuild, c \in Channels : CallJoin(<<"proc", 1>>, g, c)
  \/ \E g \in OneGuild : CallLeave(<<"proc", 1>>, g)
  \/ CallerResume(<<"proc", 1>>)
  \/ \E t \in Threads : JoinLock(t)
  \/ \E t \in Threads : JoinCheckExisting(t)
  \/ \E t \in Threads : JoinCancelOld(t)
  \/ \E t \in Threads : JoinDisconnectOld(t)
  \/ \E t \in Threads : JoinDeleteOld(t)
  \/ \E t \in Threads : JoinOpenFail(t)
  \/ \E t \in Threads : JoinOpen(t)
  \/ \E c \in Sessions : ConnReady(c)
  \/ \E t \in Threads : JoinWaitTick(t)
  \/ \E t \in Threads : JoinTimeout(t)
  \/ \E t \in Threads : JoinCodecFail(t)
  \/ \E t \in Threads : JoinRegister(t)
  \/ \E t \in Threads : JoinReturn(t)
  \/ \E t \in Threads : LeaveStep(t)
  \/ \E s \in Sessions : ListenCancelled(s)
  \/ HandlerCall
  \/ HandlerRLock
  \/ \E g \in OneGuild : HandlerRead(g)
  \/ HandlerTTSFail

SpecGet == Init /\ [][NextGet]_vars

\* ------------------------------------------------------ SpecLookup
\* SpecGet with the inactivity leave of the listenForVoice tasks: sessions
\* are destroyed by LeaveVoiceChannel, by a replacing JoinVoiceChannel and by
\* the inactivity check, while the text handler looks the registry up.
NextLookup ==
  \/ NextGet
  \/ \E s \in Sessions, inactive \in BOOLEAN : ListenInactivity(s, inactive)

SpecLookup == Init /\ [][NextLookup]_vars

\* -------------------------------------------------------- SpecLife
\* The life of the sessions of a guild: one caller of JoinVoiceChannel /
\* LeaveVoiceChannel, and for every session its listenForVoice task with the
\* packets it takes and the handleVoiceRecording task it starts.
NextLife ==
  \/ \E g \in OneGuild, c \in Channels : CallJoin(<<"proc", 1>>, g, c)
  \/ \E g \in OneGuild : CallLeave(<<"proc", 1>>, g)
  \/ CallerResume(<<"proc", 1>>)
  \/ \E t \in Threads : JoinLock(t)
  \/ \E t \in Threads : JoinCheckExisting(t)
  \/ \E t \in Threads : JoinCancelOld(t)
  \/ \E t \in Threads : JoinDisconnectOld(t)
  \/ \E t \in Threads : JoinDeleteOld(t)
  \/ \E t \in Threads : JoinOpenFail(t)
  \/ \E t \in Threads : JoinOpen(t)
  \/ \E c \in Sessions : ConnReady(c)
  \/ \E t \in Threads : JoinWaitTick(t)
  \/ \E t \in Threads : JoinTimeout(t)
  \/ \E t \in Threads : JoinCodecFail(t)
  \/ \E t \in Threads : JoinRegister(t)
  \/ \E t \in Threads : JoinReturn(t)
  \/ \E t \in Threads : LeaveStep(t)
  \/ \E s \in Sessions, k \in PacketKinds : ListenRecv(s, k)
  \/ \E s \in Sessions : ProcessVoicePacket(s)
  \/ \E s \in Sessions : ListenCancelled(s)
  \/ \E s \in Sessions, inactive \in BOOLEAN : ListenInactivity(s, inactive)
  \/ \E s \in Sessions : RecTick(s)
  \/ \E s \in Sessions : RecCancelled(s)

SpecLife == Init /\ [][NextLife]_vars

\* -------------------------------------------- the external converter
\* 15 s pass while ffmpeg runs for convertToPCM or pcmToWav.  The context of
\* convertToPCM expires after 30 s (2 units), and the expiry is handled before
\* more time passes; pcmToWav starts ffmpeg with exec.Command, without a
\* context or a timer, so nothing in the program bounds its wait (the time it
\* has taken is counted up to one unit past 30 s).
ConvertTime ==
  /\ \A i \in PlaySlots : play[i].pc = "p_convert" =>
                            play[i].waited < ConvertUnits
  /\ \/ \E i \in PlaySlots : play[i].pc = "p_convert"
     \/ \E s \in Sessions : \E u \in 1..Len(utterances[s]) :
          utterances[s][u].stage = "wav" /\ utterances[s][u].waited <= ConvertUnits
  /\ play' = [i \in PlaySlots |->
       IF play[i].pc = "p_convert" THEN [play[i] EXCEPT !.waited = @ + 1]
                                   ELSE play[i]]
  /\ utterances' = [s \in Sessions |->
       [u \in 1..Len(utterances[s]) |->
          IF /\ utterances[s][u].stage = "wav"
             /\ utterances[s][u].waited <= ConvertUnits
            THEN [utterances[s][u] EXCEPT !.waited = @ + 1]
            ELSE utterances[s][u]]]
  /\ UNCHANGED <<vmReaders, hpc, hvc, sent, watch>>
  /\ UNCHANGED regvars
  /\ UNCHANGED <<pkt, rpc, rec>>
  /\ UNCHANGED harness

\* convertToPCM: the 30 s of context.WithTimeout are over, ffmpeg is killed,
\* cmd.Run returns an error and SendAudio returns it.
PlayConvertTimeout(i) ==
  /\ play[i].pc = "p_convert"
  /\ play[i].waited = ConvertUnits
  /\ play' = [play EXCEPT ![i] = [@ EXCEPT !.pc = "p_done", !.waited = 0,
                                           !.err = "convert"]]
  /\ UNCHANGED <<vmReaders, hpc, hvc, sent, watch>>
  /\ UNCHANGED regvars
  /\ UNCHANGED taskvars
  /\ UNCHANGED harness

\* -------------------------------------------------------- SpecConv
\* SpecProc with the time the external converter takes.
NextConv ==
  \/ NextProc
  \/ ConvertTime
  \/ \E i \in PlaySlots : PlayConvertTimeout(i)

SpecConv == InitSend /\ [][NextConv]_vars

\* -------------------------------------------------------- SpecStop
\* A joined session with all its background tasks (listenForVoice,
\* handleVoiceRecording, processRecordedAudio with the reply it plays) and
\* one LeaveVoiceChannel call that cancels it.
\* The steps of the listenForVoice task.
StopListener ==
  \/ ProcessVoicePacket(1)
  \/ ListenCancelled(1)

\* The next frame of the one burst spoken in the channel arrives on OpusRecv.
StopFeed ==
  /\ vcs[1].written < BurstBytes
  /\ ProcFeed

\* The ticker of handleVoiceRecording ticks.  The select of a cancelled task
\* finds ctx.Done() ready at once and the next tick 100 ms away, so the ticks
\* are those of an uncancelled session.
StopTick ==
  /\ ~vcs[1].cancelled
  /\ ProcTick

\* The steps of the handleVoiceRecording task that do not wait for its ticker.
StopRecorder ==
  \/ RecCancelled(1)
  \/ ProcessRecordedAudio(1)

\* The calls of processRecordedAudio that return within a timeout of their
\* own: SpeechToText (60 s), the lookups and GenerateResponse (30 s),
\* TextToSpeech (60 s).
StopProcessing(u) ==
  \/ \E outcome \in {"text", "error", "empty"} : ProcSTT(1, u, outcome)
  \/ \E ok \in BOOLEAN : ProcAnswer(1, u, ok)
  \/ ProcTTSFail(1, u)
  \/ ProcSendAudio(1, u)

\* The steps of a SendAudio execution: convertToPCM returns within 30 s, and
\* every iteration of playPCMFile ends within the 100 ms of its send wait.
StopPlay(i) ==
  \/ PlayCheck(i)
  \/ PlayConvertFail(i)
  \/ \E n \in 0..MaxFrames : PlayConvert(i, n)
  \/ PlayCancelled(i)
  \/ PlayEOF(i)
  \/ \E encoded \in BOOLEAN : PlayRead(i, encoded)
  \/ PlaySend(i)
  \/ PlaySendTimeout(i)

\* The steps of the LeaveVoiceChannel call that finds the session.
StopLeave(t) ==
  \/ LeaveLock(t)
  \/ LeaveCancel(t)
  \/ LeaveDisconnect(t)
  \/ LeaveDelete(t)
  \/ LeaveReturn(t)

NextStop ==
  \/ StopFeed
  \/ StopTick
  \/ StopListener
  \/ StopRecorder
  \/ \E u \in 1..MaxBursts, ok \in BOOLEAN : ProcWav(1, u, ok)
  \/ \E u \in 1..MaxBursts : StopProcessing(u)
  \/ \E i \in PlaySlots : StopPlay(i)
  \/ PlayTime
  \/ \E g \in OneGuild : CallLeave(<<"proc", 1>>, g)
  \/ StopLeave(<<"proc", 1>>)

\* Every task is scheduled, and every wait that the program bounds with a
\* timer or a cancellation case ends.  pcmToWav waits for ffmpeg without
\* either (exec.Command, cmd.Run), so its return is left to the converter.
SpecStop ==
  /\ InitSend
  /\ [][NextStop]_vars
  /\ WF_vars(StopListener)
  /\ WF_vars(StopRecorder)
  /\ \A u \in 1..MaxBursts : WF_vars(StopProcessing(u))
  /\ \A i \in PlaySlots : WF_vars(StopPlay(i))
  /\ WF_vars(StopLeave(<<"proc", 1>>))

\* -------------------------------------------------------- SpecFail
\* SpecWatch with a connection that fails for good: from then on OpusRecv
\* delivers nothing (no code of the session looks at the connection's state).
ConnFail ==
  /\ ~vcs[1].cancelled
  /\ conns[1] = "ready"
  /\ ~watch.failed
  /\ watch' = [watch EXCEPT !.failed = TRUE]
  /\ UNCHANGED <<vmReaders, hpc, hvc, play, sent>>
  /\ UNCHANGED regvars
  /\ UNCHANGED taskvars
  /\ UNCHANGED harness

\* A packet is taken from the OpusRecv of a working connection.
FailRecv(k) ==
  /\ ~watch.failed
  /\ WatchRecv(k)

NextFail ==
  \/ WatchTime
  \/ \E k \in PacketKinds : FailRecv(k)
  \/ ConnFail
  \/ \E g \in OneGuild : CallLeave(<<"proc", 1>>, g)
  \/ WatchTask
  \/ \E t \in Threads : LeaveStep(t)

SpecFail ==
  /\ InitWatch
  /\ [][NextFail]_vars
  /\ SF_vars(WatchTime)
  /\ WF_vars(WatchTask)
  /\ \A t \in Threads : WF_vars(LeaveStep(t))

\* ------------------------------------------------------- SpecSpeak
\* A joined session in a channel with several participants: the packets on
\* OpusRecv are frames of the tracked speaker, frames of other participants
\* (at most MaxOther of them), packets with SSRC 0 and nil packets; the
\* segmenter flushes the bursts and the utterances go to transcription.
OtherFrames(s) ==
  Cardinality({a \in 1..Len(vcs[s].frames) : vcs[s].frames[a].who = "other"})
  + Cardinality({<<u, a>> \in (1..Len(utterances[s])) \X (1..MaxBursts * BurstFrames) :
                   /\ a <= Len(utterances[s][u].frames)
                   /\ utterances[s][u].frames[a].who = "other"})

\* The next packet arrives on OpusRecv.
SpeakFeed(k) ==
  /\ k \in FrameKinds => vcs[1].written < MaxBursts * BurstBytes
  /\ k = "other" => OtherFrames(1) < MaxOther
  /\ ListenRecvBody(1, k)
  /\ UNCHANGED harness
  /\ UNCHANGED sendvars

NextSpeak ==
  \/ \E k \in PacketKinds \cup FrameKinds : SpeakFeed(k)
  \/ ProcessVoicePacket(1)
  \/ ProcTick
  \/ ProcessRecordedAudio(1)
  \/ \E u \in 1..MaxBursts, ok \in BOOLEAN : ProcWav(1, u, ok)
  \/ \E u \in 1..MaxBursts, outcome \in {"text", "error", "empty"} :
       ProcSTT(1, u, outcome)

SpecSpeak == InitSend /\ [][NextSpeak]_vars

\* -------------------------------------------------------- SpecLock
\* vc.mu of a session and the tasks that take it, one step per Lock / RLock
\* and one per critical section: a task that holds vc.mu sits at a position
\* of its own, and Lock / RLock wait while the positions of the other task
\* exclude them (sync.RWMutex).  The listener task runs processVoicePacket
\* and the inactivity check, the recorder task the tick, the flush and the
\* discard.  An inactive session is left by its listener, and the text
\* handler looks the registry up beside it.
VcWriters(s) ==
  {x \in {"listener", "recorder"} :
     \/ x = "listener" /\ pc[ListenThread(s)] = "l_locked"
     \/ x = "recorder" /\ rpc[s] \in {"r_flocked", "r_dlocked"}}

VcReaders(s) ==
  {x \in {"listener", "recorder"} :
     \/ x = "listener" /\ pc[ListenThread(s)] = "l_rlocked"
     \/ x = "recorder" /\ rpc[s] = "r_rlocked"}

\* processVoicePacket returns before vc.mu.Lock(): a nil packet, no Opus
\* payload, SSRC 0.
PacketReject(s) ==
  /\ pc[ListenThread(s)] = "l_packet"
  /\ pkt[s].kind \notin FrameKinds
  /\ ProcessVoicePacketUpdate(s)
  /\ UNCHANGED harness
  /\ UNCHANGED sendvars

\* processVoicePacket entering its critical section without waiting for the
\* holders of vc.mu.
PacketLockBarging(s) ==
  /\ pc[ListenThread(s)] = "l_packet"
  /\ pkt[s].kind \in FrameKinds
  /\ pc' = [pc EXCEPT ![ListenThread(s)] = "l_locked"]
  /\ UNCHANGED <<connections, vmMu, call, vcs, conns, hist, left>>
  /\ UNCHANGED taskvars
  /\ UNCHANGED harness
  /\ UNCHANGED sendvars

\* processVoicePacket: vc.mu.Lock()
PacketLock(s) ==
  /\ pc[ListenThread(s)] = "l_packet"
  /\ pkt[s].kind \in FrameKinds
  /\ VcWriters(s) = {}
  /\ VcReaders(s) = {}
  /\ pc' = [pc EXCEPT ![ListenThread(s)] = "l_locked"]
  /\ UNCHANGED <<connections, vmMu, call, vcs, conns, hist, left>>
  /\ UNCHANGED taskvars
  /\ UNCHANGED harness
  /\ UNCHANGED sendvars

\* processVoicePacket: the append, LastActivity, the start of
\* handleVoiceRecording, then the deferred vc.mu.Unlock().
PacketWrite(s) ==
  /\ pc[ListenThread(s)] = "l_locked"
  /\ ProcessVoicePacketUpdate(s)
  /\ UNCHANGED harness
  /\ UNCHANGED sendvars

\* listenForVoice, case <-time.After(30 s): vc.mu.RLock()
IdleRLock(s) ==
  /\ pc[ListenThread(s)] = "l_select"
  /\ ~vcs[s].cancelled
  /\ VcWriters(s) = {}
  /\ pc' = [pc EXCEPT ![ListenThread(s)] = "l_rlocked"]
  /\ UNCHANGED <<connections, vmMu, call, vcs, conns, hist, left>>
  /\ UNCHANGED taskvars
  /\ UNCHANGED harness
  /\ UNCHANGED sendvars

\* inactive := time.Since(vc.LastActivity) > 5*time.Minute; vc.mu.RUnlock();
\* an inactive session is left with LeaveVoiceChannel(vc.GuildID).
IdleRead(s, inactive) ==
  /\ pc[ListenThread(s)] = "l_rlocked"
  /\ LET t == ListenThread(s) IN
       IF inactive
         THEN /\ pc' = [pc EXCEPT ![t] = "lv_lock"]
              /\ call' = [call EXCEPT ![t] = [NoCall EXCEPT
                                                !.op = "leave",
                                                !.guild = vcs[s].GuildID]]
         ELSE /\ pc' = [pc EXCEPT ![t] = "l_select"]
              /\ UNCHANGED call
  /\ UNCHANGED <<connections, vmMu, vcs, conns, hist, left>>
  /\ UNCHANGED taskvars
  /\ UNCHANGED harness
  /\ UNCHANGED sendvars

\* handleVoiceRecording, case <-ticker.C: vc.mu.RLock().  The ticks fall
\* after the first frame of the burst and after its last, on a session that
\* is not cancelled.
TickRLock(s) ==
  /\ rpc[s] = "r_loop"
  /\ ~vcs[s].cancelled
  /\ vcs[s].written % BurstBytes \in {0, FrameBytes}
  /\ VcWriters(s) = {}
  /\ rpc' = [rpc EXCEPT ![s] = "r_rlocked"]
  /\ UNCHANGED regvars
  /\ UNCHANGED <<pkt, rec, utterances>>
  /\ UNCHANGED harness
  /\ UNCHANGED sendvars

\* currentSize := vc.AudioBuffer.Len(); vc.mu.RUnlock(); then the tests on
\* the value read.
TickRead(s) ==
  /\ rpc[s] = "r_rlocked"
  /\ RecTickUpdate(s)
  /\ UNCHANGED harness
  /\ UNCHANGED sendvars

\* processRecordedAudio: vc.mu.Lock()
FlushLock(s) ==
  /\ rpc[s] = "r_process"
  /\ VcWriters(s) = {}
  /\ VcReaders(s) = {}
  /\ rpc' = [rpc EXCEPT ![s] = "r_flocked"]
  /\ UNCHANGED regvars
  /\ UNCHANGED <<pkt, rec, utterances>>
  /\ UNCHANGED harness
  /\ UNCHANGED sendvars

\* processRecordedAudio: the copy, Reset, IsRecording = false, vc.mu.Unlock()
FlushTake(s) ==
  /\ rpc[s] = "r_flocked"
  /\ ProcessRecordedAudioUpdate(s)

\* The discard branch of handleVoiceRecording: vc.mu.Lock()
DiscardLock(s) ==
  /\ rpc[s] = "r_discard"
  /\ VcWriters(s) = {}
  /\ VcReaders(s) = {}
  /\ rpc' = [rpc EXCEPT ![s] = "r_dlocked"]
  /\ UNCHANGED regvars
  /\ UNCHANGED <<pkt, rec, utterances>>
  /\ UNCHANGED harness
  /\ UNCHANGED sendvars

\* The discard branch: Reset, IsRecording = false, vc.mu.Unlock()
DiscardReset(s) ==
  /\ rpc[s] = "r_dlocked"
  /\ DiscardUpdate(s)

\* The next packet arrives on OpusRecv; one burst is spoken.
LockFeed(k) ==
  /\ k \in FrameKinds => vcs[1].written < BurstBytes
  /\ ListenRecvBody(1, k)
  /\ UNCHANGED harness
  /\ UNCHANGED sendvars

NextLock ==
  \/ \E k \in PacketKinds : LockFeed(k)
  \/ PacketReject(1)
  \/ PacketLock(1)
  \/ PacketWrite(1)
  \/ \E inactive \in BOOLEAN : IdleRead(1, inactive)
  \/ IdleRLock(1)
  \/ TickRLock(1)
  \/ TickRead(1)
  \/ FlushLock(1)
  \/ FlushTake(1)
  \/ DiscardLock(1)
  \/ DiscardReset(1)
  \/ RecCancelled(1)
  \/ StopLeave(ListenThread(1))
  \/ HandlerCall
  \/ HandlerRLock
  \/ \E g \in OneGuild : HandlerRead(g)
  \/ HandlerTTSFail

SpecLock == InitSend /\ [][NextLock]_vars

\* ------------------------------------------------------- SpecGuilds
\* Two guilds side by side: a caller issues JoinVoiceChannel and
\* LeaveVoiceChannel for either guild, and the sessions of both guilds take
\* packets, start their handleVoiceRecording task and run the inactivity
\* check beside it.
NextGuilds ==
  \/ \E g \in Guilds : CallJoin(<<"proc", 1>>, g, "c1")
  \/ \E g \in Guilds : CallLeave(<<"proc", 1>>, g)
  \/ CallerResume(<<"proc", 1>>)
  \/ \E t \in Threads : JoinLock(t)
  \/ \E t \in Threads : JoinCheckExisting(t)
  \/ \E t \in Threads : JoinCancelOld(t)
  \/ \E t \in Threads : JoinDisconnectOld(t)
  \/ \E t \in Threads : JoinDeleteOld(t)
  \/ \E t \in Threads : JoinOpenFail(t)
  \/ \E t \in Threads : JoinOpen(t)
  \/ \E c \in Sessions : ConnReady(c)
  \/ \E t \in Threads : JoinWaitTick(t)
  \/ \E t \in Threads : JoinTimeout(t)
  \/ \E t \in Threads : JoinCodecFail(t)
  \/ \E t \in Threads : JoinRegister(t)
  \/ \E t \in Threads : JoinReturn(t)
  \/ \E t \in Threads : LeaveStep(t)
  \/ \E s \in Sessions, k \in PacketKinds : ListenRecv(s, k)
  \/ \E s \in Sessions : ProcessVoicePacket(s)
  \/ \E s \in Sessions : ListenCancelled(s)
  \/ \E s \in Sessions, inactive \in BOOLEAN : ListenInactivity(s, inactive)
  \/ \E s \in Sessions : RecCancelled(s)

SpecGuilds == Init /\ [][NextGuilds]_vars

\* ------------------------------------------------------- SpecDuplex
\* A joined session that is spoken to while it speaks: the frames of the
\* bursts are ingested and segmented while a SendAudio execution started by
\* the text handler plays an answer on the same session; the handler answers
\* until one of its answers is played.
NextDuplex ==
  \/ ProcFeed
  \/ ProcessVoicePacket(1)
  \/ ProcTick
  \/ ProcessRecordedAudio(1)
  \/ play[1].pc = "p_none" /\ HandlerCall
  \/ HandlerRLock
  \/ \E g \in OneGuild : HandlerRead(g)
  \/ HandlerTTSFail
  \/ HandlerSpawn
  \/ PlayCheck(1)
  \/ PlayConvertFail(1)
  \/ \E n \in 0..MaxFrames : PlayConvert(1, n)
  \/ PlayEOF(1)
  \/ \E encoded \in BOOLEAN : PlayRead(1, encoded)
  \/ PlaySend(1)
  \/ PlaySendTimeout(1)
  \/ PlayTime

SpecDuplex == InitSend /\ [][NextDuplex]_vars

\* --------------------------------------------------------- SpecLog
\* The end of processRecordedAudio step by step: with the response it starts
\* the goroutine that sends the text and the goroutine that synthesizes and
\* plays the answer, then calls logVoiceInteraction, whose db.Create
\* succeeds or fails; the text goroutine's ChannelMessageSend succeeds or
\* fails beside it.
\* A logVoiceInteraction whose failure ends the session.
LogCreateFatal(s, u, ok) ==
  /\ u \in 1..Len(utterances[s])
  /\ utterances[s][u].log = "pending"
  /\ utterances' = [utterances EXCEPT
       ![s][u].log = IF ok THEN "stored" ELSE "failed"]
  /\ vcs' = [vcs EXCEPT ![s].cancelled = @ \/ ~ok]
  /\ UNCHANGED <<connections, vmMu, pc, call, conns, hist, left>>
  /\ UNCHANGED <<pkt, rpc, rec>>
  /\ UNCHANGED harness
  /\ UNCHANGED sendvars

\* session.Guild, session.Channel, SearchRelevantContext, GenerateResponse,
\* then the two go statements.
LogAnswer(s, u, ok) ==
  /\ u \in 1..Len(utterances[s])
  /\ utterances[s][u].stage = "answer"
  /\ utterances' = [utterances EXCEPT ![s][u] =
       IF ok THEN [@ EXCEPT !.stage = "tts", !.text = "started",
                            !.log = "pending"]
             ELSE [@ EXCEPT !.stage = "dropped"]]
  /\ UNCHANGED regvars
  /\ UNCHANGED <<pkt, rpc, rec>>
  /\ UNCHANGED harness
  /\ UNCHANGED sendvars

\* session.ChannelMessageSend in the text goroutine; an error is logged.
LogText(s, u, ok) ==
  /\ u \in 1..Len(utterances[s])
  /\ utterances[s][u].text = "started"
  /\ utterances' = [utterances EXCEPT
       ![s][u].text = IF ok THEN "sent" ELSE "failed"]
  /\ UNCHANGED regvars
  /\ UNCHANGED <<pkt, rpc, rec>>
  /\ UNCHANGED harness
  /\ UNCHANGED sendvars

\* logVoiceInteraction: h.db.Create(interaction); an error is logged, and
\* processRecordedAudio returns.
LogCreate(s, u, ok) ==
  /\ u \in 1..Len(utterances[s])
  /\ utterances[s][u].log = "pending"
  /\ utterances' = [utterances EXCEPT
       ![s][u].log = IF ok THEN "stored" ELSE "failed"]
  /\ UNCHANGED regvars
  /\ UNCHANGED <<pkt, rpc, rec>>
  /\ UNCHANGED harness
  /\ UNCHANGED sendvars

NextLog ==
  \/ ProcFeed
  \/ ProcessVoicePacket(1)
  \/ ProcTick
  \/ ProcessRecordedAudio(1)
  \/ \E u \in 1..MaxBursts, ok \in BOOLEAN : ProcWav(1, u, ok)
  \/ \E u \in 1..MaxBursts, outcome \in {"text", "error", "empty"} :
       ProcSTT(1, u, outcome)
  \/ \E u \in 1..MaxBursts, ok \in BOOLEAN : LogAnswer(1, u, ok)
  \/ \E u \in 1..MaxBursts, ok \in BOOLEAN : LogText(1, u, ok)
  \/ \E u \in 1..MaxBursts, ok \in BOOLEAN : LogCreate(1, u, ok)
  \/ \E u \in 1..MaxBursts : ProcTTSFail(1, u)
  \/ \E u \in 1..MaxBursts : ProcSendAudio(1, u)

SpecLog == InitSend /\ [][NextLog]_vars

\* ------------------------------------------------------ SpecCancel
\* The loop of playPCMFile statement by statement beside one
\* LeaveVoiceChannel call: the cancellation check at the head of the loop,
\* the read of the next chunk with its encoding, and the send select are
\* steps of their own, so the session can be cancelled between any two.
\* A cancellation check that lets a cancelled playback go on.
LoopCheckBlind(i) ==
  /\ play[i].pc = "p_loop"
  /\ play' = [play EXCEPT ![i].pc = "p_read"]
  /\ UNCHANGED <<vmReaders, hpc, hvc, sent, watch>>
  /\ UNCHANGED regvars
  /\ UNCHANGED taskvars
  /\ UNCHANGED harness

\* select { case <-vc.ctx.Done(): ...; default: }: the default branch.
LoopCheck(i) ==
  /\ play[i].pc = "p_loop"
  /\ ~vcs[play[i].vc].cancelled
  /\ play' = [play EXCEPT ![i].pc = "p_read"]
  /\ UNCHANGED <<vmReaders, hpc, hvc, sent, watch>>
  /\ UNCHANGED regvars
  /\ UNCHANGED taskvars
  /\ UNCHANGED harness

\* file.Read returns io.EOF: break, return nil.  `cut` records whether the
\* session was cancelled by then.
LoopEOF(i) ==
  /\ play[i].pc = "p_read"
  /\ play[i].frame = play[i].frames
  /\ play' = [play EXCEPT ![i] = [@ EXCEPT !.pc = "p_done",
                                           !.cut = vcs[play[i].vc].cancelled]]
  /\ UNCHANGED <<vmReaders, hpc, hvc, sent, watch>>
  /\ UNCHANGED regvars
  /\ UNCHANGED taskvars
  /\ UNCHANGED harness

\* file.Read fails with another error: return it.
LoopReadFail(i) ==
  /\ play[i].pc = "p_read"
  /\ play' = [play EXCEPT ![i] = [@ EXCEPT !.pc = "p_done", !.err = "read",
                                           !.cut = vcs[play[i].vc].cancelled]]
  /\ UNCHANGED <<vmReaders, hpc, hvc, sent, watch>>
  /\ UNCHANGED regvars
  /\ UNCHANGED taskvars
  /\ UNCHANGED harness

\* file.Read fills the buffer with the next chunk; vc.encoder.Encode fails
\* (log, continue) or yields the frame to send.
LoopRead(i, encoded) ==
  /\ play[i].pc = "p_read"
  /\ play[i].frame < play[i].frames
  /\ play' = [play EXCEPT ![i] =
       [@ EXCEPT !.frame = @ + 1, !.waited = 0,
                 !.pc = IF encoded THEN "p_send" ELSE "p_loop"]]
  /\ UNCHANGED <<vmReaders, hpc, hvc, sent, watch>>
  /\ UNCHANGED regvars
  /\ UNCHANGED taskvars
  /\ UNCHANGED harness

NextCancel ==
  \/ play[1].pc = "p_none" /\ HandlerCall
  \/ HandlerRLock
  \/ \E g \in OneGuild : HandlerRead(g)
  \/ HandlerTTSFail
  \/ HandlerSpawn
  \/ PlayCheck(1)
  \/ PlayConvertFail(1)
  \/ \E n \in 0..MaxFrames : PlayConvert(1, n)
  \/ PlayCancelled(1)
  \/ LoopCheck(1)
  \/ LoopEOF(1)
  \/ LoopReadFail(1)
  \/ \E encoded \in BOOLEAN : LoopRead(1, encoded)
  \/ PlaySend(1)
  \/ PlaySendTimeout(1)
  \/ PlayTime
  \/ \E g \in OneGuild : CallLeave(<<"proc", 1>>, g)
  \/ StopLeave(<<"proc", 1>>)

SpecCancel == InitSend /\ [][NextCancel]_vars

\* -------------------------------------------------------- SpecLoop
\* One SendAudio execution on a session that stays joined, its loop
\* statement by statement.  The goroutine is scheduled, file.Read returns,
\* and time passes, so the 100 ms timer of a send fires; whether the outbound
\* path ever takes a frame is left open.
NextLoop ==
  \/ play[1].pc = "p_none" /\ HandlerCall
  \/ HandlerRLock
  \/ \E g \in OneGuild : HandlerRead(g)
  \/ HandlerTTSFail
  \/ HandlerSpawn
  \/ PlayCheck(1)
  \/ PlayConvertFail(1)
  \/ \E n \in 0..MaxFrames : PlayConvert(1, n)
  \/ LoopCheck(1)
  \/ LoopEOF(1)
  \/ LoopReadFail(1)
  \/ \E encoded \in BOOLEAN : LoopRead(1, encoded)
  \/ PlaySend(1)
  \/ PlaySendTimeout(1)
  \/ PlayTime

SpecLoop ==
  /\ InitSend
  /\ [][NextLoop]_vars
  /\ WF_vars(LoopCheck(1))
  /\ WF_vars(LoopEOF(1) \/ LoopReadFail(1)
               \/ \E encoded \in BOOLEAN : LoopRead(1, encoded))
  /\ WF_vars(PlaySendTimeout(1))
  /\ WF_vars(PlayTime)

\* ------------------------------------------------------ SpecReject
\* A joined session receives packets of every kind while time passes: the
\* frames of one burst of the speaker, and the packets processVoicePacket returns on
\* early: an empty payload ("empty"), SSRC 0, a payload the decoder refuses
\* ("corrupt") and one that decodes to no samples ("hollow").  A nil packet
\* is dropped by listenForVoice itself.
RejectKinds == {"empty", "corrupt", "hollow"}

\* The next packet arrives on OpusRecv.
RejectFeed(k) ==
  /\ k \in FrameKinds => vcs[1].written < BurstBytes
  /\ ListenRecvBody(1, k)
  /\ UNCHANGED harness
  /\ UNCHANGED sendvars

\* processVoicePacket runs on the packet and returns.
RejectProcess ==
  /\ ProcessVoicePacketBody(1)
  /\ watch' = [watch EXCEPT !.early = pkt[1].kind \notin FrameKinds]
  /\ UNCHANGED <<vmReaders, hpc, hvc, play, sent>>
  /\ UNCHANGED harness

\* Time passes: time.Now() moves on.
RejectTime ==
  /\ clock < MaxStamp
  /\ clock' = clock + 1
  /\ UNCHANGED <<fed, feed>>
  /\ UNCHANGED regvars
  /\ UNCHANGED taskvars
  /\ UNCHANGED sendvars

NextReject ==
  \/ \E k \in PacketKinds \cup RejectKinds : RejectFeed(k)
  \/ RejectProcess
  \/ RejectTime
  \/ ProcTick
  \/ ProcessRecordedAudio(1)

SpecReject == InitSend /\ [][NextReject]_vars

\* ================================================================ claims
\* A thread is inside JoinVoiceChannel / LeaveVoiceChannel, past vm.mu.Lock().
InCritical(t) ==
  pc[t] \in {"j_check", "j_cancel", "j_disc", "j_delete", "j_open", "j_wait",
             "j_ready", "j_return", "lv_lookup", "lv_disc", "lv_delete",
             "lv_return"}

\* A thread has called JoinVoiceChannel / LeaveVoiceChannel and not returned.
InCall(t) == InCritical(t) \/ pc[t] \in {"j_lock", "lv_lock"}

\* The sessions of guild g that are neither cancelled nor disconnected.
LiveSessions(g) ==
  {s \in Sessions : /\ vcs[s].created
                    /\ vcs[s].GuildID = g
                    /\ ~vcs[s].cancelled
                    /\ conns[s] # "closed"}

\* The registry content: the channel each guild's registered session targets.
View(g) == IF connections[g] = Nil THEN "-"
                                   ELSE vcs[connections[g]].ChannelID

\* C1: for concurrent JoinVoiceChannel / LeaveVoiceChannel calls on one guild,
\* at most one session of the guild is live at any instant and it is the
\* registered one; at most one call is past vm.mu.Lock() at a time; and once
\* every call has returned, the registry content and the return values are
\* those of running the calls one after another in the order they returned.
C1_RegistryExclusive ==
  /\ \A g \in Guilds : /\ Cardinality(LiveSessions(g)) <= 1
                       /\ LiveSessions(g) \subseteq {connections[g]}
  /\ Cardinality({t \in Threads : InCritical(t)}) <= 1
  /\ \A t \in Threads : InCritical(t) => vmMu = t
  /\ (\A t \in Threads : ~InCall(t)) =>
       /\ hist.agree
       /\ \A g \in Guilds : View(g) = hist.serial[g]

\* A Leave waits for vm.mu while a Join of the same guild has registered its
\* session and not yet returned.
C1_Witness ==
  \E t \in Procs, u \in Procs :
    /\ pc[t] = "j_return"
    /\ pc[u] = "lv_lock"
    /\ call[u].guild = call[t].guild
    /\ call[t].conn \in LiveSessions(call[t].guild)

\* C2: a JoinVoiceChannel(g, c) that finds a registered session of g already
\* targeting c leaves that session registered, does not cancel it, does not
\* disconnect it and opens no new connection.
C2_JoinIdempotent ==
  \A t \in Threads :
    ( /\ call[t].op = "join"
      /\ pc[t] \in {"j_cancel", "j_disc", "j_delete", "j_open", "j_wait",
                    "j_ready", "j_return", "returned"}
      /\ call[t].before # Nil
      /\ vcs[call[t].before].ChannelID = call[t].channel )
    => IF pc[t] = "returned"
         THEN call[t].after = call[t].before /\ call[t].conn = Nil
         ELSE /\ connections[call[t].guild] = call[t].before
              /\ ~vcs[call[t].before].cancelled
              /\ conns[call[t].before] # "closed"
              /\ call[t].conn = Nil

\* The existing session of a Join targets another channel than the Join.
Replacing(t) ==
  /\ call[t].op = "join"
  /\ InCritical(t)
  /\ call[t].old # Nil
  /\ vcs[call[t].old].ChannelID # call[t].channel

\* C3: when JoinVoiceChannel finds a registered session for another channel,
\* the old session is cancelled, its connection disconnected and its entry
\* removed before the new connection is opened, and the new session is
\* registered into an empty entry (never beside or over the old one).
C3_ReplaceTearsDownFirst ==
  \A t \in Threads :
    /\ (Replacing(t) /\ call[t].conn # Nil) =>
         /\ vcs[call[t].old].cancelled
         /\ conns[call[t].old] = "closed"
         /\ connections[call[t].guild] # call[t].old
    /\ (Replacing(t) /\ pc[t] \in {"j_open", "j_wait", "j_ready"}) =>
         connections[call[t].guild] = Nil
    /\ (Replacing(t) /\ pc[t] = "j_return") =>
         /\ connections[call[t].guild] = call[t].conn
         /\ LiveSessions(call[t].guild) = {call[t].conn}

\* A replacing Join has opened and registered its new session.
C3_Witness ==
  \E t \in Procs : Replacing(t) /\ pc[t] = "j_return"

\* C4: the ready wait of JoinVoiceChannel lasts at most 100 ticks of 100 ms;
\* after the 100th tick only the timeout branch is left; and a Join that
\* returned the timeout error has disconnected the connection it opened, and
\* no session and no listenForVoice task exists for that connection.
C4_ReadyTimeout ==
  /\ \A t \in Threads :
       pc[t] = "j_wait" =>
         /\ call[t].elapsed <= ReadyWaitTicks
         /\ call[t].elapsed = ReadyWaitTicks =>
              (ENABLED JoinTimeout(t) /\ ~ENABLED JoinWaitTick(t))
  /\ \A t \in Procs :
       (pc[t] = "returned" /\ call[t].err = "timeout") =>
         /\ ~call[t].ok
         /\ conns[call[t].conn] = "closed"
         /\ ~vcs[call[t].conn].created
         /\ pc[ListenThread(call[t].conn)] = "l_none"
         /\ \A g \in Guilds : connections[g] # call[t].conn

\* A Join returned the timeout error.
C4_Witness ==
  \E t \in Procs : pc[t] = "returned" /\ call[t].err = "timeout"

\* The results of the LeaveVoiceChannel calls that returned.
C5_LeaveResults ==
  \A t \in Procs :
    (pc[t] = "returned" /\ call[t].op = "leave") =>
      /\ call[t].before # Nil =>
           /\ call[t].ok
           /\ call[t].old = call[t].before
           /\ vcs[call[t].before].cancelled
           /\ conns[call[t].before] = "closed"
           /\ call[t].after = Nil
      /\ call[t].before = Nil =>
           /\ ~call[t].ok
           /\ call[t].err = "notfound"
           /\ call[t].old = Nil
           /\ call[t].after = Nil
      /\ call[t].second =>
           /\ ~call[t].ok
           /\ call[t].err = "notfound"
           /\ call[t].after = call[t].firstAfter

\* A step in which a Leave returns not-found changes no session, no
\* connection and no registry entry.
C5_NotFoundChangesNothing ==
  \A t \in Threads :
    (pc[t] = "lv_lookup" /\ pc'[t] # "lv_lookup" /\ pc'[t] # "lv_disc") =>
      UNCHANGED <<connections, vcs, conns>>

\* C5: LeaveVoiceChannel(g) with a registered session cancels it, disconnects
\* it and removes the entry; without one it returns not-found and changes
\* nothing; a Leave directly after a successful Leave of the same guild
\* returns not-found and leaves the registry as the first one left it.
C5_Leave == []C5_LeaveResults /\ [][C5_NotFoundChangesNothing]_vars

\* A Leave returned directly after a successful Leave of the same guild.
C5_Witness ==
  \E t \in Procs :
    pc[t] = "returned" /\ call[t].op = "leave" /\ call[t].second

\* C6: once LeaveVoiceChannel has returned for a session, no step changes
\* that session's audio buffer, last-activity timestamp or recording flag,
\* and the buffer stays empty.
C6_LeaveQuiescence ==
  [][\A s \in left : /\ vcs'[s].AudioBuffer = vcs[s].AudioBuffer
                     /\ vcs'[s].LastActivity = vcs[s].LastActivity
                     /\ vcs'[s].IsRecording = vcs[s].IsRecording
                     /\ vcs'[s].AudioBuffer = 0]_vars

\* The trace exceeds the byte floor and then stalls for the silence threshold.
StallsAboveFloor ==
  /\ feed.grow * FrameBytes > MinAudioBytes
  /\ feed.stall >= SilenceTicks

\* The consecutive ticks up to the current one on which the buffer size was
\* the same as on the tick before, read off the trace.
QuietRun ==
  IF clock > feed.grow /\ clock <= feed.grow + feed.stall
    THEN clock - feed.grow
    ELSE 0

\* C7: while handleVoiceRecording runs, its silence count is the number of
\* consecutive unchanged ticks (0 after any tick on which the size changed);
\* for a trace that exceeds the floor and then stalls, the utterance is
\* emitted at the tick where that count reaches 20 and at no earlier tick.
C7_SegmentationThreshold ==
  /\ rpc[1] = "r_loop" =>
       rec[1].silenceCount = (IF rec[1].ticks = 0 THEN 0 ELSE QuietRun)
  /\ clock < feed.grow + SilenceTicks =>
       (utterances[1] = <<>> /\ rpc[1] # "r_process")
  /\ (StallsAboveFloor /\ clock >= feed.grow + SilenceTicks) =>
       \/ /\ clock = feed.grow + SilenceTicks
          /\ rpc[1] = "r_process"
          /\ utterances[1] = <<>>
       \/ /\ Len(utterances[1]) >= 1
          /\ utterances[1][1].tick = feed.grow + SilenceTicks
          /\ utterances[1][1].bytes = feed.grow * FrameBytes

\* The boundary of a trace that stalled after a count was reset was emitted.
C7_Witness ==
  /\ StallsAboveFloor
  /\ clock = feed.grow + SilenceTicks
  /\ Len(utterances[1]) = 1

\* C8: when the buffer has grown on every tick, handleVoiceRecording has left
\* its tick loop (forced boundary) once the recording has lasted 300 ticks.
C8_ForcedBoundary ==
  (feed.grow >= clock /\ rpc[1] = "r_loop") =>
    rec[1].ticks < maxRecordingTime

\* C9: no utterance is at or below the byte floor; a buffer that stopped
\* growing at or below the floor produces no utterance and no flush while it
\* stays stalled, is kept until the cap check of the tick loop fires (300
\* unchanged ticks), and is then discarded: buffer reset, flag cleared.
C9_MinimumSizeDiscard ==
  /\ \A i \in 1..Len(utterances[1]) : utterances[1][i].bytes > MinAudioBytes
  /\ (feed.grow * FrameBytes <= MinAudioBytes
        /\ clock <= feed.grow + feed.stall) =>
       /\ utterances[1] = <<>>
       /\ rpc[1] # "r_process"
  /\ (feed.grow * FrameBytes <= MinAudioBytes
        /\ clock >= feed.grow
        /\ clock < feed.grow + feed.stall) =>
       IF clock < feed.grow + maxRecordingTime
         THEN /\ vcs[1].AudioBuffer = feed.grow * FrameBytes
              /\ vcs[1].IsRecording
              /\ rpc[1] = "r_loop"
         ELSE \/ /\ clock = feed.grow + maxRecordingTime
                 /\ rpc[1] = "r_discard"
              \/ /\ rpc[1] = "r_done"
                 /\ vcs[1].AudioBuffer = 0
                 /\ ~vcs[1].IsRecording

\* A buffer that stalled below the floor was discarded at the cap.
C9_Witness ==
  /\ feed.grow * FrameBytes <= MinAudioBytes
  /\ clock <= feed.grow + feed.stall
  /\ clock > feed.grow + maxRecordingTime
  /\ rpc[1] = "r_done"
  /\ vcs[1].AudioBuffer = 0

\* C10: fed 40 ticks of growth and then 25 unchanged ticks, the session emits
\* nothing before tick 60, exactly one utterance at tick 60, and from then to
\* tick 65 (before any later frame) the buffer is empty, the recording flag
\* clear and no second utterance appears.
C10_ConcreteTrace ==
  (feed.grow = 40 /\ feed.stall = 25) =>
    /\ clock < 60 => utterances[1] = <<>>
    /\ (clock >= 60 /\ (clock < 65 \/ (clock = 65 /\ ~fed))) =>
         \/ /\ clock = 60
            /\ rpc[1] = "r_process"
            /\ utterances[1] = <<>>
         \/ /\ Len(utterances[1]) = 1
            /\ utterances[1][1].tick = 60
            /\ utterances[1][1].bytes = 40 * FrameBytes
            /\ vcs[1].AudioBuffer = 0
            /\ ~vcs[1].IsRecording
            /\ rpc[1] = "r_done"

\* The trace of 40 growing and 25 unchanged ticks has run to its end.
C10_Witness ==
  /\ feed.grow = 40
  /\ feed.stall = 25
  /\ clock = 65
  /\ ~fed
  /\ Len(utterances[1]) = 1

\* C11: consecutive frames of one playPCMFile execution are handed to OpusSend
\* at least one frame duration (20 ms) apart, so N frames take at least
\* N - 1 frame durations.
C11_PlaybackPacing ==
  \A k \in 1..Len(sent) : ~sent[k].first => sent[k].gap >= PaceFrames

\* C12: a frame send of playPCMFile waits at most 100 ms (5 frame durations):
\* once they have passed, no more time passes and the frame is not handed
\* over before the execution gives the frame up; giving it up, like a failed
\* encode, is no error: an execution ends only at the end of the file, on a
\* cancelled session or before playPCMFile's loop, and one that ends without
\* error has gone through every chunk of its file.
C12_BoundedFrameSend ==
  \A i \in PlaySlots :
    /\ play[i].waited <= SendWaitFrames
    /\ (play[i].pc = "p_send" /\ play[i].waited = SendWaitFrames) =>
         /\ ENABLED PlaySendTimeout(i)
         /\ ~ENABLED PlaySend(i)
         /\ ~ENABLED PlayTime
    /\ play[i].timedOut + play[i].handed <= play[i].frame
    /\ play[i].pc = "p_done" =>
         /\ play[i].err \in {"none", "cancelled", "convert", "noconn"}
         /\ play[i].err = "cancelled" => vcs[play[i].vc].cancelled
         /\ play[i].err = "none" => play[i].frame = play[i].frames

\* An execution gave a frame up after the wait, handed a later frame over and
\* finished without error.
C12_Witness ==
  \E i \in PlaySlots :
    /\ play[i].pc = "p_done"
    /\ play[i].err = "none"
    /\ play[i].timedOut >= 1
    /\ \E k \in 1..Len(sent) : sent[k].task = i /\ sent[k].frame = MaxFrames

\* C13: a SendAudio called on a session that LeaveVoiceChannel has already
\* closed returns the no-connection error from its first check: it never
\* reaches the transcoding nor playPCMFile, and hands no frame over.
C13_NoConnection ==
  /\ \A i \in PlaySlots :
       play[i].wasLeft =>
         \/ play[i].pc = "p_check"
         \/ play[i].pc = "p_done" /\ play[i].err = "noconn"
  /\ \A k \in 1..Len(sent) : ~play[sent[k].task].wasLeft

\* An execution is inside playPCMFile's loop, using vc.encoder and OpusSend.
InPlayback(i) == play[i].pc \in {"p_loop", "p_send"}

\* C20: at most one SendAudio execution per session is inside playPCMFile,
\* and the frames of two executions are not interleaved on OpusSend.
C20_SinglePlayback ==
  /\ \A i, j \in PlaySlots :
       (InPlayback(i) /\ InPlayback(j) /\ play[i].vc = play[j].vc) => i = j
  /\ \A a, b, c \in 1..Len(sent) :
       (a < b /\ b < c /\ sent[a].task = sent[c].task) =>
         sent[b].task = sent[a].task

\* The session is neither cancelled nor disconnected.
Live(s) == vcs[s].created /\ ~vcs[s].cancelled /\ conns[s] # "closed"

\* The session was closed the way LeaveVoiceChannel closes it.
Closed(s) ==
  /\ vcs[s].cancelled
  /\ conns[s] = "closed"
  /\ \A g \in Guilds : connections[g] # s

\* C14: a session whose last accepted frame is older than the 5 minute
\* ceiling is eventually closed by the inactivity check of its listenForVoice
\* task (cancelled, disconnected, removed from the registry), whatever
\* packets arrive on the connection.
C14_InactivityWatchdog ==
  (Live(1) /\ watch.silent > InactivityUnits) ~> Closed(1)

\* C15: the registry lookup of the handlers never waits: whenever a handler
\* has reached its lookup, the lookup can be carried out at once, also while
\* a JoinVoiceChannel or LeaveVoiceChannel is in progress.
C15_LookupNonBlocking ==
  hpc = "h_rlock" => ENABLED HandlerRLock

\* A recorder goroutine of session s is between its start and its hand-off.
Recording(s) == rpc[s] \in {"r_loop", "r_process", "r_discard"}

\* C16: whatever fails for one utterance (conversion, transcription, lookups,
\* context, response, synthesis) or in one SendAudio call, the session stays
\* registered, uncancelled and connected, and its segmenter is left able to
\* record the next utterance (the recording flag is set only while a
\* recorder runs).
C16_LocalFailures ==
  /\ connections["g1"] = 1
  /\ Live(1)
  /\ pc[ListenThread(1)] \in {"l_select", "l_packet"}
  /\ vcs[1].IsRecording <=> Recording(1)

\* After a dropped utterance and a failed SendAudio call a later utterance
\* was segmented and answered.
C16_Witness ==
  /\ Len(utterances[1]) = 2
  /\ utterances[1][1].stage = "dropped"
  /\ utterances[1][2].stage = "done"
  /\ \E i \in PlaySlots : play[i].pc = "p_done" /\ play[i].err = "convert"

\* C17: the utterances of a session are disjoint, consecutive pieces of the
\* stream written to its buffer (no byte is in two utterances, none is in an
\* utterance and still in the buffer), and each is transcribed at most once.
C17_ConsumedOnce ==
  \A s \in Sessions :
    /\ \A u \in 1..Len(utterances[s]) :
         /\ utterances[s][u].from >= 0
         /\ utterances[s][u].from + utterances[s][u].bytes
              <= vcs[s].written - vcs[s].AudioBuffer
         /\ utterances[s][u].stt <= 1
         /\ utterances[s][u].stage \in {"answer", "tts", "done"} =>
              utterances[s][u].stt = 1
    /\ \A u, v \in 1..Len(utterances[s]) :
         u < v => utterances[s][u].from + utterances[s][u].bytes
                    <= utterances[s][v].from

\* Two utterances were taken from the buffer and both were transcribed.
C17_Witness ==
  /\ Len(utterances[1]) = 2
  /\ utterances[1][1].stt = 1
  /\ utterances[1][2].stt = 1
  /\ utterances[1][2].from = utterances[1][1].bytes

\* C18: while an utterance is in flight (being converted, transcribed or
\* answered) the listenForVoice task still takes and buffers frames, and the
\* recording flag is set only if a recorder started after the hand-off runs,
\* so the next frame starts the next recording.
C18_HandOffDoesNotBlock ==
  (\E u \in 1..Len(utterances[1]) : InFlight(1, u)) =>
    /\ pc[ListenThread(1)] = "l_select" => ENABLED ListenRecvBody(1, "voice")
    /\ pc[ListenThread(1)] = "l_packet" => ENABLED ProcessVoicePacket(1)
    /\ vcs[1].IsRecording <=> Recording(1)
    /\ (pc[ListenThread(1)] = "l_packet" /\ ~Recording(1)) =>
         ENABLED (ProcessVoicePacket(1) /\ rpc'[1] = "r_loop")

\* While the first utterance is being transcribed, a new recording has
\* started and buffered a whole burst.
C18_Witness ==
  /\ Len(utterances[1]) = 1
  /\ utterances[1][1].stage = "stt"
  /\ rpc[1] = "r_loop"
  /\ vcs[1].AudioBuffer = BurstBytes

\* C19: a session has at most one utterance in flight (taken by a
\* processRecordedAudio call that has not returned).
C19_SingleInFlight ==
  \A s \in Sessions :
    Cardinality({u \in 1..Len(utterances[s]) : InFlight(s, u)}) <= 1

\* The registered sessions are live, except the one the holder of vm.mu is
\* tearing down; a lookup holds the read lock, so it sees live sessions only.
C22_RegisteredLive ==
  /\ \A g \in Guilds :
       (connections[g] # Nil /\ ~Live(connections[g])) =>
         /\ vmMu # NoThread
         /\ call[vmMu].old = connections[g]
  /\ hpc = "h_read" =>
       /\ vmMu = NoThread
       /\ \A g \in Guilds : connections[g] # Nil => Live(connections[g])

\* A step that removes a registry entry removes a cancelled, disconnected
\* session inside the critical section that cancelled it; a session is
\* disconnected after it was cancelled; a lookup returns a live session.
C22_TeardownOrder ==
  /\ \A g \in Guilds :
       (connections[g] # Nil /\ connections'[g] # connections[g]) =>
         /\ connections'[g] = Nil
         /\ vcs[connections[g]].cancelled
         /\ conns[connections[g]] = "closed"
         /\ vmMu # NoThread
         /\ vmMu' = vmMu
         /\ call[vmMu].old = connections[g]
  /\ \A s \in Sessions :
       (vcs[s].created /\ conns[s] # "closed" /\ conns'[s] = "closed") =>
         (vcs[s].cancelled /\ vmMu # NoThread /\ call[vmMu].old = s)
  /\ (hpc = "h_read" /\ hpc' # "h_read" /\ hvc' # Nil) => Live(hvc')

\* C22: a session is destroyed (by LeaveVoiceChannel, by a replacing
\* JoinVoiceChannel, by the inactivity check) in the order cancel, disconnect,
\* remove the entry, inside one vm.mu critical section; hence every session a
\* registry lookup returns is live (not cancelled, not disconnected).
C22_DestructionOrder == []C22_RegisteredLive /\ [][C22_TeardownOrder]_vars

\* A lookup reads the entry of a session registered after an earlier session
\* of the guild was destroyed.
C22_Witness ==
  /\ hpc = "h_read"
  /\ connections["g1"] # Nil
  /\ \E s \in Sessions : vcs[s].created /\ Closed(s)

UsesConnection(i) ==
  \/ play[i].pc = "p_convert" /\ play'[i].pc = "p_loop"
  \/ play[i].pc \in {"p_loop", "p_send"} /\ play'[i].pc = "p_done"
  \/ play[i].pc = "p_send" /\ play'[i].handed > play[i].handed

\* C24: no SendAudio execution, started by the text handler or by an
\* utterance's reply, calls Speaking or sends a frame on the connection of a
\* session that is closed (cancelled, disconnected, removed from the registry).
C24_NoUseAfterClose ==
  [][\A i \in PlaySlots : UsesConnection(i) => ~Closed(play[i].vc)]_vars

\* C27: every call of the external converter is bounded by a 30 s timeout:
\* neither convertToPCM (playback) nor pcmToWav (utterance) waits for ffmpeg
\* longer than that; at 30 s the call returns a conversion error.
C27_ConverterTimeout ==
  /\ \A i \in PlaySlots :
       play[i].pc = "p_convert" =>
         /\ play[i].waited <= ConvertUnits
         /\ play[i].waited = ConvertUnits =>
              (ENABLED PlayConvertTimeout(i) /\ ~ENABLED ConvertTime)
  /\ \A s \in Sessions : \A u \in 1..Len(utterances[s]) :
       utterances[s][u].stage = "wav" =>
         utterances[s][u].waited <= ConvertUnits

\* No background task of session s is running: its listenForVoice task and
\* its handleVoiceRecording task have returned, no utterance of it is being
\* processed or answered, and no SendAudio execution on it is under way.
Quiesced(s) ==
  /\ pc[ListenThread(s)] \notin {"l_select", "l_packet"}
  /\ ~Recording(s)
  /\ \A u \in 1..Len(utterances[s]) :
       utterances[s][u].stage \in {"dropped", "done"}
  /\ \A i \in PlaySlots :
       play[i].vc = s => play[i].pc \in {"p_none", "p_done"}

\* C21: once the cancellation of a session is signalled, all its background
\* tasks eventually terminate: the ingestion loop, the segmenter tick loop,
\* the utterance processing in flight and the playback in flight.
C21_TasksTerminate == vcs[1].cancelled ~> Quiesced(1)

\* C29: a session whose connection has failed for good (no packet is
\* delivered any more) is eventually closed: cancelled, disconnected and
\* removed from the registry, also when nobody calls LeaveVoiceChannel.
C29_FailedConnectionCloses == watch.failed ~> Closed(1)

\* The session of a failed connection was closed by its own listenForVoice
\* task; no handler has called LeaveVoiceChannel.
C29_Witness ==
  /\ watch.failed
  /\ Closed(1)
  /\ pc[ListenThread(1)] = "l_done"
  /\ \A t \in Procs : pc[t] = "idle"

\* The recording flag is set exactly while a handleVoiceRecording task is
\* between its start and its flush or discard, and audio is in the buffer
\* only while the flag is set.
C30_FlagInvariant ==
  \A s \in Sessions :
    /\ vcs[s].IsRecording <=> Recording(s)
    /\ vcs[s].AudioBuffer > 0 => vcs[s].IsRecording

\* The steps that change the recording flag or start a tick loop.
C30_FlagSteps ==
  \A s \in Sessions :
    /\ (pc[ListenThread(s)] = "l_packet" /\ pc'[ListenThread(s)] = "l_select"
          /\ pkt[s].kind \in FrameKinds) => vcs'[s].IsRecording
    /\ (~vcs[s].IsRecording /\ vcs'[s].IsRecording) =>
         /\ pc[ListenThread(s)] = "l_packet"
         /\ pkt[s].kind \in FrameKinds
         /\ vcs'[s].AudioBuffer = FrameBytes
         /\ rpc[s] \in {"r_none", "r_done"}
         /\ rpc'[s] = "r_loop"
         /\ rec'[s] = NoRec
    /\ (rpc[s] # "r_loop" /\ rpc'[s] = "r_loop") =>
         (~vcs[s].IsRecording /\ vcs'[s].IsRecording)
    /\ (rec[s] # NoRec /\ rec'[s] = NoRec) => ~vcs[s].IsRecording
    /\ (vcs[s].IsRecording /\ ~vcs'[s].IsRecording) =>
         /\ rpc[s] \in {"r_process", "r_discard"}
         /\ rpc'[s] = "r_done"
         /\ vcs'[s].AudioBuffer = 0

\* C30: in a live session the recording flag is set by the first accepted
\* frame while it is clear, and that step starts the one handleVoiceRecording
\* tick loop; only the flush and the discard clear it; no tick loop is started
\* while one runs; and a non-empty buffer implies a set flag.
C30_RecordingFlag == []C30_FlagInvariant /\ [][C30_FlagSteps]_vars

\* After a flush cleared the flag, a later frame has set it again and the
\* tick loop it started has ticked.
C30_Witness ==
  /\ Len(utterances[1]) = 1
  /\ vcs[1].IsRecording
  /\ rpc[1] = "r_loop"
  /\ rec[1].ticks >= 1

\* The frames of f are in the order of their arrival.
Ascending(f) == \A a, b \in 1..Len(f) : a < b => f[a].n < f[b].n

\* C25: within a session the buffer holds the accepted frames in the order
\* of their arrival on OpusRecv; so do the frames of every utterance; the
\* utterances are emitted in the order in which their first frames arrived,
\* and every frame of an utterance arrived before the frames of the later
\* utterances and of the buffer.
C25_ArrivalOrder ==
  \A s \in Sessions :
    /\ Ascending(vcs[s].frames)
    /\ \A u \in 1..Len(utterances[s]) :
         LET f == utterances[s][u].frames IN
           /\ Len(f) >= 1
           /\ Ascending(f)
           /\ \A v \in 1..Len(utterances[s]) :
                u < v => /\ f[1].n < utterances[s][v].frames[1].n
                         /\ f[Len(f)].n < utterances[s][v].frames[1].n
           /\ Len(vcs[s].frames) >= 1 => f[Len(f)].n < vcs[s].frames[1].n

\* Two bursts were buffered and emitted as two utterances.
C25_Witness ==
  /\ Len(utterances[1]) = 2
  /\ utterances[1][1].frames[1].n = 1
  /\ utterances[1][2].frames[1].n = BurstFrames + 1
  /\ Len(utterances[1][2].frames) = BurstFrames

\* C28: every utterance handed to the transcription path holds frames of the
\* session's tracked speaker only (frames of other participants do not get
\* into the buffer it is taken from).
C28_TrackedSpeakerOnly ==
  \A s \in Sessions :
    \A u \in 1..Len(utterances[s]) :
      \A a \in 1..Len(utterances[s][u].frames) :
        utterances[s][u].frames[a].who = "voice"

\* C26: every access of a session's AudioBuffer, LastActivity and IsRecording
\* by the listener task (ingestion, inactivity check) and the recorder task
\* (tick, flush, discard) happens while that task holds vc.mu, exclusively
\* for the writes; the registry map is read and written only by a holder of
\* vm.mu.
C26_Exclusion ==
  /\ \A s \in Sessions :
       /\ Cardinality(VcWriters(s)) <= 1
       /\ VcWriters(s) # {} => VcReaders(s) = {}
  /\ vmMu # NoThread => vmReaders = 0
  /\ hpc = "h_read" => vmReaders > 0 /\ vmMu = NoThread
  /\ \A t \in Threads : InCritical(t) => vmMu = t

C26_Access ==
  /\ \A s \in Sessions :
       /\ <<vcs[s].AudioBuffer, vcs[s].LastActivity, vcs[s].IsRecording>>'
             # <<vcs[s].AudioBuffer, vcs[s].LastActivity, vcs[s].IsRecording>>
            => VcWriters(s) # {} /\ VcReaders(s) = {}
       /\ rec'[s] # rec[s] => VcWriters(s) \cup VcReaders(s) # {}
       /\ utterances'[s] # utterances[s] => VcWriters(s) = {"recorder"}
  /\ connections' # connections => vmMu # NoThread /\ InCritical(vmMu)
  /\ hvc' # hvc /\ hvc' # Nil => hpc = "h_read"

C26_LockDiscipline == []C26_Exclusion /\ [][C26_Access]_vars

\* A frame waits in processVoicePacket for vc.mu while the discard branch
\* holds it, and the text handler holds the read lock of the registry.
C26_Witness ==
  /\ pc[ListenThread(1)] = "l_packet"
  /\ pkt[1].kind \in FrameKinds
  /\ rpc[1] = "r_dlocked"
  /\ vcs[1].AudioBuffer > 0
  /\ hpc = "h_read"

\* C31: sessions of different guilds are independent: a step of a call, of
\* a listenForVoice task or of a handleVoiceRecording task that belongs to
\* guild g leaves the registry entry, the buffer, the recording flag, the
\* activity timestamp and the cancellation state of every other guild's
\* sessions as they were.
GuildView(g) ==
  <<connections[g],
    [s \in Sessions |->
       IF vcs[s].created /\ vcs[s].GuildID = g
         THEN <<vcs[s].AudioBuffer, vcs[s].IsRecording, vcs[s].LastActivity,
                vcs[s].cancelled>>
         ELSE <<>>]>>

StepOfGuild(g) ==
  \/ \E t \in Procs : /\ pc'[t] # pc[t]
                      /\ g \in {call[t].guild, call'[t].guild}
  \/ \E s \in Sessions :
       /\ \/ pc'[ListenThread(s)] # pc[ListenThread(s)]
          \/ rpc'[s] # rpc[s]
          \/ pkt'[s] # pkt[s]
       /\ g \in {vcs[s].GuildID, vcs'[s].GuildID}

Ingested(s) ==
  <<vcs[s].AudioBuffer, vcs[s].IsRecording, vcs[s].LastActivity,
    vcs[s].written, vcs[s].frames, pkt[s], rpc[s], rec[s], utterances[s]>>

UtteranceBytes(s) ==
  LET sum[u \in 0..Len(utterances[s])] ==
        IF u = 0 THEN 0 ELSE sum[u - 1] + utterances[s][u].bytes
  IN sum[Len(utterances[s])]

C32_Results ==
  /\ \A s \in Sessions :
       vcs[s].written = vcs[s].AudioBuffer + UtteranceBytes(s)
  /\ \A a, b \in 1..Len(sent) :
       a < b /\ sent[a].task = sent[b].task => sent[a].frame < sent[b].frame
  /\ \A i \in PlaySlots :
       play[i].handed = Cardinality({a \in 1..Len(sent) : sent[a].task = i})

C32_Steps ==
  /\ (play' # play \/ sent' # sent) =>
       \A s \in Sessions : Ingested(s)' = Ingested(s)
  /\ (\E s \in Sessions : Ingested(s)' # Ingested(s)) =>
       play' = play /\ sent' = sent

C32_DisjointState == []C32_Results /\ [][C32_Steps]_vars

\* A frame has been sent while a burst is in the buffer, the segmenter runs
\* and an earlier burst is already an utterance.
C32_Witness ==
  /\ Len(sent) > 0
  /\ play[1].pc = "p_send"
  /\ vcs[1].IsRecording
  /\ vcs[1].AudioBuffer > 0
  /\ Len(utterances[1]) > 0
  /\ pc[ListenThread(1)] = "l_packet"

\* C33: interaction logging is best effort: when logVoiceInteraction fails
\* for an utterance, the text reply and the spoken reply of that utterance
\* have been started all the same, the step of the failure changes nothing
\* but the record of the logging, the session stays registered and
\* uncancelled, and its later utterances are processed.
C33_RepliesStarted ==
  \A s \in Sessions : \A u \in 1..Len(utterances[s]) :
    utterances[s][u].log = "failed" =>
      /\ utterances[s][u].text \in {"started", "sent", "failed"}
      /\ utterances[s][u].stage \in {"tts", "done"}
      /\ connections[vcs[s].GuildID] = s
      /\ ~vcs[s].cancelled
      /\ conns[s] = "ready"

C33_FailureOnlyLogged ==
  \A s \in Sessions : \A u \in 1..Len(utterances[s]) :
    utterances[s][u].log = "pending" /\ utterances'[s][u].log = "failed" =>
      /\ utterances'[s][u] = [utterances[s][u] EXCEPT !.log = "failed"]
      /\ \A v \in 1..Len(utterances[s]) :
           v # u => utterances'[s][v] = utterances[s][v]
      /\ UNCHANGED <<connections, vmMu, pc, call, vcs, conns, pkt, rpc, rec,
                     play, sent>>

C33_BestEffortLogging ==
  []C33_RepliesStarted /\ [][C33_FailureOnlyLogged]_vars

\* The logging of the first utterance failed; its answer is being played,
\* and the second utterance of the session has been answered and played too.
C33_Witness ==
  /\ Len(utterances[1]) = 2
  /\ utterances[1][1].log = "failed"
  /\ utterances[1][1].text = "sent"
  /\ utterances[1][1].stage = "done"
  /\ utterances[1][2].stage = "done"
  /\ utterances[1][2].log = "stored"
  /\ \A i \in PlaySlots : play[i].pc = "p_check" /\ play[i].origin = "voice"

\* C34: the inactivity path of a session closes that session only: the
\* session that the LeaveVoiceChannel call of a listenForVoice task cancels,
\* disconnects and removes is the session the task listens for.
C34_InactivityClosesOwn ==
  \A s \in Sessions :
    pc[ListenThread(s)] \in {"lv_disc", "lv_delete", "lv_return"} =>
      call[ListenThread(s)].old = s

\* C35: when JoinVoiceChannel returns an error (the connection could not be
\* opened, did not become ready in time, or a codec could not be created),
\* the guild has no registered session at that return, and a session that
\* was registered before the call is cancelled, disconnected and removed.
C35_FailedJoinLeavesNone ==
  \A t \in Procs :
    pc[t] = "returned" /\ call[t].op = "join" /\ ~call[t].ok =>
      /\ call[t].err \in {"open", "timeout", "codec"}
      /\ call[t].after = Nil
      /\ call[t].old = call[t].before
      /\ call[t].old # Nil =>
           /\ vcs[call[t].old].cancelled
           /\ conns[call[t].old] = "closed"
           /\ \A g \in Guilds : connections[g] # call[t].old

\* A JoinVoiceChannel that found a session registered has timed out waiting
\* for its new connection.
C35_Witness ==
  \E t \in Procs :
    /\ pc[t] = "returned"
    /\ call[t].op = "join"
    /\ call[t].err = "timeout"
    /\ call[t].old # Nil
    /\ connections[call[t].guild] = Nil

\* C36: no connection leaks: a connection that is open is the connection of
\* the registered session of its guild or the one a JoinVoiceChannel call
\* that has not returned is waiting for; a session is registered with a
\* connection that has reported ready; the session a registry entry loses
\* is disconnected; and no guild has two connections that are not
\* disconnected.
Undisconnected(c) == conns[c] \in {"open", "ready"}

Joining(t, c) == pc[t] \in {"j_wait", "j_ready"} /\ call[t].conn = c

ConnGuild(c) ==
  IF vcs[c].created THEN vcs[c].GuildID
  ELSE IF \E t \in Threads : Joining(t, c)
         THEN call[CHOOSE t \in Threads : Joining(t, c)].guild
         ELSE "-"

C36_Owned ==
  /\ \A c \in Sessions :
       Undisconnected(c) =>
         \/ \E g \in Guilds : connections[g] = c
         \/ \E t \in Threads : Joining(t, c)
  /\ \A g \in Guilds :
       Cardinality({c \in Sessions : Undisconnected(c) /\ ConnGuild(c) = g})
         <= 1
  /\ \A t \in Procs :
       pc[t] = "returned" /\ call[t].op = "join" /\ call[t].conn # Nil =>
         \/ conns[call[t].conn] = "closed"
         \/ call[t].ok /\ connections[call[t].guild] = call[t].conn

C36_Steps ==
  /\ \A c \in Sessions :
       ~vcs[c].created /\ vcs'[c].created => conns[c] = "ready"
  /\ \A g \in Guilds :
       connections[g] # Nil /\ connections'[g] # connections[g] =>
         conns[connections[g]] = "closed"

C36_NoConnectionLeak == []C36_Owned /\ [][C36_Steps]_vars

\* A session was replaced: its connection is disconnected, the connection of
\* the registered session is ready, and the JoinVoiceChannel call that
\* replaced it is about to return.
C36_Witness ==
  /\ \E g \in Guilds : connections[g] # Nil /\ conns[connections[g]] = "ready"
  /\ \E c \in Sessions : vcs[c].created /\ conns[c] = "closed"
  /\ \E t \in Procs : pc[t] = "j_return" /\ call[t].old # Nil

\* C37 (as claimed): a playPCMFile execution whose session is cancelled
\* while it runs returns the cancelled error, after handing over at most one
\* further frame; one whose session is cancelled when its loop starts hands
\* over no frame.
LateFrames(i) ==
  Cardinality({a \in 1..Len(sent) : sent[a].task = i /\ sent[a].late})

C37_CancelledError ==
  \A i \in PlaySlots :
    /\ LateFrames(i) <= 1
    /\ play[i].pc = "p_done" /\ play[i].cut => play[i].err = "cancelled"

\* C37 (amended): after the cancellation of its session a playPCMFile
\* execution hands over at most one further frame; at the head of its loop
\* it returns the cancelled error without sending, so it sends nothing when
\* the session is cancelled before the loop starts; the one return that is
\* not the cancelled error is that of the read that follows the last check
\* passed before the cancellation (success at the end of the input, or the
\* read error).
C37_LateFrames ==
  \A i \in PlaySlots :
    /\ LateFrames(i) <= 1
    /\ play[i].pc = "p_done" /\ play[i].cut => play[i].err \in {"none", "read"}
    /\ play[i].pc = "p_done" /\ play[i].err = "none" =>
         play[i].frame = play[i].frames
    /\ LateFrames(i) = 1 /\ play[i].pc = "p_done" =>
         play[i].err = "cancelled"

C37_HeadOfLoop ==
  \A i \in PlaySlots :
    /\ play[i].pc = "p_loop" /\ vcs[play[i].vc].cancelled
         /\ play'[i].pc # play[i].pc =>
           /\ play'[i].pc = "p_done"
           /\ play'[i].err = "cancelled"
           /\ sent' = sent
    /\ play'[i].handed # play[i].handed /\ vcs[play[i].vc].cancelled =>
         play[i].pc = "p_send" /\ play'[i].pc = "p_loop"

C37_CancelledPlayback == []C37_LateFrames /\ [][C37_HeadOfLoop]_vars

\* The session was cancelled while a frame waited in the send select: the
\* frame was handed over and the playback returned the cancelled error with
\* input left.
C37_Witness ==
  /\ play[1].pc = "p_done"
  /\ play[1].err = "cancelled"
  /\ LateFrames(1) = 1
  /\ play[1].handed = 1
  /\ play[1].frame < play[1].frames

\* C38: on a finite input playPCMFile terminates: every step of its loop
\* brings it closer to the end of the input or returns, a playback in its
\* loop returns, and it returns success only at the end of the input, also
\* when every send times out or every chunk fails to encode.
InLoop(i) == play[i].pc \in {"p_loop", "p_read", "p_send"}

Remaining(i) ==
  LET left_ == play[i].frames - play[i].frame
      w == SendWaitFrames + 3
  IN CASE play[i].pc = "p_loop" -> w * left_ + w - 1
       [] play[i].pc = "p_read" -> w * left_ + w - 2
       [] play[i].pc = "p_send" ->
            w * left_ + w + (SendWaitFrames - play[i].waited)
       [] OTHER -> 0

C38_EndsAtEOF ==
  \A i \in PlaySlots :
    /\ play[i].frame <= play[i].frames
    /\ play[i].pc = "p_done" /\ play[i].err = "none" =>
         /\ play[i].frame = play[i].frames
         /\ play[i].handed + play[i].timedOut <= play[i].frames

C38_Progress ==
  \A i \in PlaySlots :
    InLoop(i) /\ <<play[i].pc, play[i].frame, play[i].waited>>'
                   # <<play[i].pc, play[i].frame, play[i].waited>> =>
      Remaining(i)' < Remaining(i)

C38_Terminates ==
  /\ []C38_EndsAtEOF
  /\ [][C38_Progress]_vars
  /\ (play[1].pc = "p_loop") ~> (play[1].pc = "p_done")

\* The playback of a full input has ended with success although every one
\* of its sends timed out.
C38_Witness ==
  /\ play[1].pc = "p_done"
  /\ play[1].err = "none"
  /\ play[1].frames = MaxFrames
  /\ play[1].timedOut = MaxFrames
  /\ play[1].handed = 0

\* C39: a packet that processVoicePacket returns on early (empty payload,
\* SSRC 0, decode error, empty decode result) leaves the session as it was:
\* the buffer, the last-activity timestamp and the recording flag keep their
\* values, no handleVoiceRecording task is started and the running one is
\* not touched.
RejectStep(s) ==
  /\ pc[ListenThread(s)] = "l_packet"
  /\ pc'[ListenThread(s)] = "l_select"
  /\ pkt[s].kind \notin FrameKinds

C39_SessionKept ==
  \A s \in Sessions :
    RejectStep(s) =>
      /\ vcs'[s].AudioBuffer = vcs[s].AudioBuffer
      /\ vcs'[s].LastActivity = vcs[s].LastActivity
      /\ vcs'[s].IsRecording = vcs[s].IsRecording
      /\ vcs'[s] = vcs[s]
      /\ rpc' = rpc
      /\ rec' = rec
      /\ utterances' = utterances

C39_RejectKeepsSession == [][C39_SessionKept]_vars

\* processVoicePacket has just returned early on a session that holds
\* buffered audio of a recording in progress, stamped before the present
\* time.
C39_Witness ==
  /\ watch.early
  /\ pc[ListenThread(1)] = "l_select"
  /\ vcs[1].AudioBuffer > 0
  /\ vcs[1].IsRecording
  /\ rpc[1] = "r_loop"
  /\ vcs[1].LastActivity < clock

====
